---- MODULE Spec2Model ----
(***************************************************************************)
(* PkStrategy (scripts/pk/pk_strategy.py): the registry of tracked orders  *)
(* and take-profit limit orders, the creation guard, order creation, the   *)
(* exchange event handlers and the periodic check_orders tick, together    *)
(* with the exchange gateway that turns commands into events.              *)
(*                                                                         *)
(* Numbers: Python's None and 0 are both falsy and the source tests the    *)
(* optional fields by truthiness only, so an unset optional number is 0.   *)
(* Deltas are whole percents (5 is Decimal("0.05")); prices are integers.  *)
(***************************************************************************)
EXTENDS Integers, Sequences, FiniteSets, TLC

VARIABLES
    tracked_orders,                 \* self.tracked_orders
    take_profit_limit_orders,       \* self.take_profit_limit_orders
    is_a_sell_order_being_created,  \* latch of the sell side
    is_a_buy_order_being_created,   \* latch of the buy side
    now,                            \* get_market_data_provider_time()
    cmds,                           \* exchange commands issued by the latest operation
    ex_rest,                        \* exchange: order id -> amount still resting
    ex_cancel,                      \* exchange: ids with a cancel command outstanding
    ex_unconfirmed,                 \* exchange: entry ids whose creation event is due
    ex_closing,                     \* exchange: close orders whose fill event is due
    ex_position,                    \* exchange: tracked order id -> what is open of its position
    creating,                       \* the create_individual_order call inside self.sell / self.buy
    context,                        \* savings.py: the latest close, saved_last_dca_price, buy_counter
    unfilled_order_expiration       \* self.config.unfilled_order_expiration

vars == <<tracked_orders, take_profit_limit_orders, is_a_sell_order_being_created,
          is_a_buy_order_being_created, now, cmds, ex_rest, ex_cancel,
          ex_unconfirmed, ex_closing, ex_position, creating, context,
          unfilled_order_expiration>>

-----------------------------------------------------------------------------
(* Bounds of the model *)

MaxExposure == 2    \* the base amounts of the submitted entry orders add up to this at most
MaxEarly == 2       \* the clock takes the seconds 1..MaxEarly, then the late points
MaxSeconds == 4     \* the last second of the clock that moves second by second
MaxOrders == 3      \* the savings strategy submits this many entry orders at most
pyramiding == 2     \* config.pyramiding

-----------------------------------------------------------------------------
(* Values *)

None == 0
SELL == "SELL"
BUY == "BUY"
Sides == {SELL, BUY}
Refs == {"R", "S"}                  \* refs can_create_order is asked about
OrderRefs == {"R"}                  \* refs the strategy creates orders with
Cooldowns == {0, 5}                 \* cooldown_time_min values the strategy passes
EntryPrices == {100}
FillPrices == {100}
MidPrices == {90, 100, 110}
Expirations == {None, 1}            \* config.unfilled_order_expiration, seconds

\* The clock: the early seconds 1..MaxEarly, then the seconds 300 after the
\* early seconds but the last, so that for a termination at T the model holds
\* now = T + 299 as well as now = T + 300.
LatePoints == {5 * 60 + t : t \in 1..(MaxEarly - 1)}
TimePoints == (1..MaxEarly) \cup LatePoints

TripleBarrier(sl, tp, tl, open_type, tp_type, tl_type) ==
    [stop_loss_delta |-> sl, take_profit_delta |-> tp, time_limit |-> tl,
     open_order_type |-> open_type, take_profit_order_type |-> tp_type,
     time_limit_order_type |-> tl_type]

\* The barriers the driving strategy attaches.
Barriers ==
    { TripleBarrier(5, 5, 1, "LIMIT", "LIMIT", "MARKET"),
      TripleBarrier(5, 5, 1, "LIMIT", "MARKET", "MARKET"),
      TripleBarrier(None, None, None, "MARKET", "LIMIT", "MARKET") }

TrackedOrderDetails(order_id, side, amount, entry_price, triple_barrier, ref, created_at) ==
    [order_id |-> order_id, side |-> side, amount |-> amount,
     entry_price |-> entry_price, triple_barrier |-> triple_barrier, ref |-> ref,
     created_at |-> created_at, filled_amount |-> 0, exchange_order_id |-> None,
     last_filled_at |-> None, last_filled_price |-> None, terminated_at |-> None,
     close_type |-> "NONE"]

TakeProfitLimitOrder(order_id, tracked_order, amount, entry_price, created_at) ==
    [order_id |-> order_id, tracked_order |-> tracked_order, amount |-> amount,
     entry_price |-> entry_price, created_at |-> created_at, filled_amount |-> 0,
     last_filled_at |-> None, last_filled_price |-> None]

\* One call of the exchange gateway: buy, sell or cancel. closes is the id of
\* the tracked order a close command is for (None otherwise); the gateway's
\* id of a close command is dropped by the caller and so is None here.
Command(cmd, order_id, amount, order_type, price, position, closes) ==
    [cmd |-> cmd, order_id |-> order_id, amount |-> amount, order_type |-> order_type,
     price |-> price, position |-> position, closes |-> closes]

-----------------------------------------------------------------------------
(* Sequence helpers *)

Min(S) == CHOOSE x \in S : \A y \in S : x <= y
Max(S) == CHOOSE x \in S : \A y \in S : x >= y

\* The search taking the latest order of seq when none has the id.
FirstWithId_or_latest(seq, order_id) ==
    LET S == {i \in DOMAIN seq : seq[i].order_id = order_id}
    IN  IF S = {} THEN Len(seq) ELSE Min(S)

\* Index of the first order of seq with the id, 0 when there is none
\* (the for ... if ... break loops of the handlers).
FirstWithId(seq, order_id) ==
    LET S == {i \in DOMAIN seq : seq[i].order_id = order_id}
    IN  IF S = {} THEN 0 ELSE Min(S)

RemoveAt(seq, k) == [i \in 1..(Len(seq) - 1) |-> IF i < k THEN seq[i] ELSE seq[i + 1]]

-----------------------------------------------------------------------------
(* Registry queries (pk_strategy.py 76-134) *)

\* Index of the first tracked order with the id, 0 for None.
find_tracked_order_of_id(order_id) == FirstWithId(tracked_orders, order_id)

\* The search without the test of last_filled_at.
find_last_terminated_order_filled_or_not(side, ref) ==
    LET S == {i \in DOMAIN tracked_orders :
                 /\ tracked_orders[i].side = side
                 /\ tracked_orders[i].ref = ref
                 /\ tracked_orders[i].terminated_at # None}
    IN  IF S = {} THEN 0
        ELSE Min({i \in S : \A j \in S :
                     tracked_orders[i].terminated_at >= tracked_orders[j].terminated_at})

\* Index of the filled and terminated order of (side, ref) with the greatest
\* terminated_at (the first such, as Python's max), 0 for None.
find_last_terminated_filled_order(side, ref) ==
    LET S == {i \in DOMAIN tracked_orders :
                 /\ tracked_orders[i].side = side
                 /\ tracked_orders[i].ref = ref
                 /\ tracked_orders[i].last_filled_at # None
                 /\ tracked_orders[i].terminated_at # None}
    IN  IF S = {} THEN 0
        ELSE Min({i \in S : \A j \in S :
                     tracked_orders[i].terminated_at >= tracked_orders[j].terminated_at})

\* The active view without the test of terminated_at.
get_active_tracked_orders_with_terminated(ref) ==
    LET active == SelectSeq(tracked_orders, LAMBDA order : order.created_at # None)
    IN  IF ref # "" THEN SelectSeq(active, LAMBDA order : order.ref = ref) ELSE active

\* ref = "" stands for the default argument ref=None (no filter).
get_active_tracked_orders(ref) ==
    LET active == SelectSeq(tracked_orders,
                      LAMBDA order : order.created_at # None /\ order.terminated_at = None)
    IN  IF ref # "" THEN SelectSeq(active, LAMBDA order : order.ref = ref) ELSE active

\* <<sell orders, buy orders>>
get_active_tracked_orders_by_side(ref) ==
    LET active_orders == get_active_tracked_orders(ref)
    IN  << SelectSeq(active_orders, LAMBDA order : order.side = SELL),
           SelectSeq(active_orders, LAMBDA order : order.side = BUY) >>

get_unfilled_tracked_orders_by_side(ref) ==
    LET by_side == get_active_tracked_orders_by_side(ref)
    IN  << SelectSeq(by_side[1], LAMBDA order : order.last_filled_at = None),
           SelectSeq(by_side[2], LAMBDA order : order.last_filled_at = None) >>

get_filled_tracked_orders_by_side(ref) ==
    LET by_side == get_active_tracked_orders_by_side(ref)
    IN  << SelectSeq(by_side[1], LAMBDA order : order.last_filled_at # None),
           SelectSeq(by_side[2], LAMBDA order : order.last_filled_at # None) >>

get_all_unfilled_tp_limit_orders ==
    SelectSeq(take_profit_limit_orders, LAMBDA order : order.last_filled_at = None)

get_all_filled_tp_limit_orders ==
    SelectSeq(take_profit_limit_orders, LAMBDA order : order.last_filled_at # None)

\* Index in the registry of the last take-profit order that has a fill
\* (filled_tp_orders[-1]), 0 for None.
get_latest_filled_tp_limit_order ==
    LET S == {k \in DOMAIN take_profit_limit_orders :
                 take_profit_limit_orders[k].last_filled_at # None}
    IN  IF S = {} THEN 0 ELSE Max(S)

get_unfilled_tp_limit_orders(tracked_order) ==
    SelectSeq(get_all_unfilled_tp_limit_orders,
              LAMBDA order : order.tracked_order = tracked_order.order_id)

-----------------------------------------------------------------------------
(* Exit evaluation (pk_utils.py 47-107); a price times 100 keeps the percent
   arithmetic in the integers *)

compute_stop_loss_price(side, ref_price, stop_loss_delta) ==
    IF side = SELL THEN (ref_price * (100 + stop_loss_delta)) \div 100
    ELSE (ref_price * (100 - stop_loss_delta)) \div 100

compute_take_profit_price(side, ref_price, take_profit_delta) ==
    IF side = SELL THEN (ref_price * (100 - take_profit_delta)) \div 100
    ELSE (ref_price * (100 + take_profit_delta)) \div 100

\* tracked_order.last_filled_price or tracked_order.entry_price
RefPrice(tracked_order) ==
    IF tracked_order.last_filled_price # None THEN tracked_order.last_filled_price
    ELSE tracked_order.entry_price

has_current_price_reached_stop_loss(tracked_order, current_price) ==
    LET stop_loss_delta == tracked_order.triple_barrier.stop_loss_delta
        stop_loss_price == compute_stop_loss_price(tracked_order.side,
                               RefPrice(tracked_order), stop_loss_delta)
    IN  IF stop_loss_delta = None THEN FALSE
        ELSE IF tracked_order.side = SELL THEN current_price > stop_loss_price
        ELSE current_price < stop_loss_price

has_current_price_reached_take_profit(tracked_order, current_price) ==
    LET take_profit_delta == tracked_order.triple_barrier.take_profit_delta
        take_profit_price == compute_take_profit_price(tracked_order.side,
                                 RefPrice(tracked_order), take_profit_delta)
    IN  IF take_profit_delta = None THEN FALSE
        ELSE IF tracked_order.side = SELL THEN current_price < take_profit_price
        ELSE current_price > take_profit_price

\* The expiry test with <= in place of <.
has_unfilled_order_expired_inclusive(order, expiration, current_timestamp) ==
    order.created_at + expiration <= current_timestamp

has_unfilled_order_expired(order, expiration, current_timestamp) ==
    order.created_at + expiration < current_timestamp

\* The time limit counted from the creation of the order.
has_filled_order_reached_time_limit_from_creation(tracked_order, current_timestamp) ==
    LET time_limit == tracked_order.triple_barrier.time_limit
    IN  IF time_limit = None THEN FALSE
        ELSE tracked_order.created_at + time_limit < current_timestamp

has_filled_order_reached_time_limit(tracked_order, current_timestamp) ==
    LET time_limit == tracked_order.triple_barrier.time_limit
    IN  IF time_limit = None THEN FALSE
        ELSE tracked_order.last_filled_at + time_limit < current_timestamp

-----------------------------------------------------------------------------
(* Creation guard (pk_strategy.py 374-395) *)

\* can_create_order with the cooldown test >= in place of >.
can_create_order_cooldown_inclusive(side, amount_quote, ref, cooldown_time_min) ==
    LET last_terminated_filled_order == find_last_terminated_filled_order(side, ref)
    IN  IF amount_quote = 0 THEN FALSE
        ELSE IF side = SELL /\ is_a_sell_order_being_created THEN FALSE
        ELSE IF side = BUY /\ is_a_buy_order_being_created THEN FALSE
        ELSE IF last_terminated_filled_order = 0 THEN TRUE
        ELSE IF tracked_orders[last_terminated_filled_order].terminated_at
                    + cooldown_time_min * 60 >= now THEN FALSE
        ELSE TRUE

\* can_create_order without the test of the amount.
can_create_order_no_amount_test(side, amount_quote, ref, cooldown_time_min) ==
    LET last_terminated_filled_order == find_last_terminated_filled_order(side, ref)
    IN  IF side = SELL /\ is_a_sell_order_being_created THEN FALSE
        ELSE IF side = BUY /\ is_a_buy_order_being_created THEN FALSE
        ELSE IF last_terminated_filled_order = 0 THEN TRUE
        ELSE IF tracked_orders[last_terminated_filled_order].terminated_at
                    + cooldown_time_min * 60 > now THEN FALSE
        ELSE TRUE

\* can_create_order with one latch for both sides.
can_create_order_shared_latch(side, amount_quote, ref, cooldown_time_min) ==
    LET last_terminated_filled_order == find_last_terminated_filled_order(side, ref)
    IN  IF amount_quote = 0 THEN FALSE
        ELSE IF is_a_sell_order_being_created \/ is_a_buy_order_being_created THEN FALSE
        ELSE IF last_terminated_filled_order = 0 THEN TRUE
        ELSE IF tracked_orders[last_terminated_filled_order].terminated_at
                    + cooldown_time_min * 60 > now THEN FALSE
        ELSE TRUE

can_create_order(side, amount_quote, ref, cooldown_time_min) ==
    LET last_terminated_filled_order == find_last_terminated_filled_order(side, ref)
    IN  IF amount_quote = 0 THEN FALSE
        ELSE IF side = SELL /\ is_a_sell_order_being_created THEN FALSE
        ELSE IF side = BUY /\ is_a_buy_order_being_created THEN FALSE
        ELSE IF last_terminated_filled_order = 0 THEN TRUE
        ELSE IF tracked_orders[last_terminated_filled_order].terminated_at
                    + cooldown_time_min * 60 > now THEN FALSE
        ELSE TRUE

-----------------------------------------------------------------------------
(* Order creation (pk_strategy.py 58-74, 136-228). order_id is the id the
   gateway's buy or sell returns. *)

\* The executor configuration with the quote amount taken as the base amount.
get_executor_config_no_division(side, entry_price, amount_quote) ==
    [side |-> side, entry_price |-> entry_price, amount |-> amount_quote]

\* get_executor_config: amount = amount_quote / entry_price
get_executor_config(side, entry_price, amount_quote) ==
    [side |-> side, entry_price |-> entry_price, amount |-> amount_quote \div entry_price]

\* The command and the appended record of create_individual_order; buy and
\* sell default to PositionAction.OPEN.
create_individual_order(executor_config, triple_barrier, ref, order_id) ==
    [cmds |-> << Command(IF executor_config.side = SELL THEN "sell" ELSE "buy", order_id,
                         executor_config.amount, triple_barrier.open_order_type,
                         executor_config.entry_price, "OPEN", None) >>,
     tracked_orders |-> Append(tracked_orders,
         TrackedOrderDetails(order_id, executor_config.side, executor_config.amount,
                             executor_config.entry_price, triple_barrier, ref, now))]

\* The take-profit order on the side of its parent.
create_tp_limit_order_same_side(tps, tracked_order, amount, entry_price, order_id) ==
    LET side == tracked_order.side
    IN  [cmds |-> << Command(IF side = SELL THEN "sell" ELSE "buy", order_id, amount,
                             "LIMIT", entry_price, "CLOSE", None) >>,
         take_profit_limit_orders |-> Append(tps,
             TakeProfitLimitOrder(order_id, tracked_order.order_id, amount, entry_price, now))]

create_tp_limit_order(tps, tracked_order, amount, entry_price, order_id) ==
    LET side == IF tracked_order.side = BUY THEN SELL ELSE BUY
    IN  [cmds |-> << Command(IF side = SELL THEN "sell" ELSE "buy", order_id, amount,
                             "LIMIT", entry_price, "CLOSE", None) >>,
         take_profit_limit_orders |-> Append(tps,
             TakeProfitLimitOrder(order_id, tracked_order.order_id, amount, entry_price, now))]

-----------------------------------------------------------------------------
(* Closing and cancelling (pk_strategy.py 238-279). The close price comes
   from the best bid and ask of the market data provider and is left out of
   the command. *)

\* The close for the amount of the order instead of its filled_amount.
close_filled_order_for_whole_amount(tos, filled_order, market_or_limit, close_type) ==
    LET k == FirstWithId(tos, filled_order.order_id)
    IN  [cmds |-> << Command(IF filled_order.side = SELL THEN "buy" ELSE "sell", None,
                             filled_order.amount, market_or_limit, None, "CLOSE",
                             filled_order.order_id) >>,
         tracked_orders |->
             IF k = 0 THEN tos
             ELSE [tos EXCEPT ![k].terminated_at = now, ![k].close_type = close_type]]

close_filled_order(tos, filled_order, market_or_limit, close_type) ==
    LET k == FirstWithId(tos, filled_order.order_id)
    IN  [cmds |-> << Command(IF filled_order.side = SELL THEN "buy" ELSE "sell", None,
                             filled_order.filled_amount, market_or_limit, None, "CLOSE",
                             filled_order.order_id) >>,
         tracked_orders |->
             IF k = 0 THEN tos
             ELSE [tos EXCEPT ![k].terminated_at = now, ![k].close_type = close_type]]

cancel_unfilled_order(tracked_order) ==
    << Command("cancel", tracked_order.order_id, None, "NONE", None, "NONE", None) >>

cancel_take_profit_for_order(filled_order) ==
    LET tps == get_unfilled_tp_limit_orders(filled_order)
    IN  [i \in 1..Len(tps) |->
            Command("cancel", tps[i].order_id, None, "NONE", None, "NONE", None)]

RECURSIVE close_filled_orders_loop(_, _, _, _, _)
close_filled_orders_loop(filled_orders, tos, out, market_or_limit, close_type) ==
    IF filled_orders = <<>> THEN [cmds |-> out, tracked_orders |-> tos]
    ELSE LET closed == close_filled_order(tos, Head(filled_orders), market_or_limit, close_type)
         IN  close_filled_orders_loop(Tail(filled_orders), closed.tracked_orders,
                 out \o closed.cmds \o cancel_take_profit_for_order(Head(filled_orders)),
                 market_or_limit, close_type)

close_filled_orders(filled_orders, market_or_limit, close_type) ==
    close_filled_orders_loop(filled_orders, tracked_orders, <<>>, market_or_limit, close_type)

-----------------------------------------------------------------------------
(* Event handlers (pk_strategy.py 281-372). An event's position is "OPEN",
   "CLOSE" or "" (absent). *)

did_create_sell_order(created_event) ==
    LET k == FirstWithId(tracked_orders, created_event.order_id)
    IN  IF created_event.position = "" \/ created_event.position = "CLOSE" THEN tracked_orders
        ELSE IF k = 0 THEN tracked_orders
        ELSE [tracked_orders EXCEPT ![k].exchange_order_id = created_event.exchange_order_id]

did_create_buy_order(created_event) ==
    LET k == FirstWithId(tracked_orders, created_event.order_id)
    IN  IF created_event.position = "" \/ created_event.position = "CLOSE" THEN tracked_orders
        ELSE IF k = 0 THEN tracked_orders
        ELSE [tracked_orders EXCEPT ![k].exchange_order_id = created_event.exchange_order_id]

\* The take-profit branch without the termination of the parent order.
did_fill_take_profit_never_terminates(filled_event) ==
    LET k == FirstWithId(take_profit_limit_orders, filled_event.order_id)
        tps == [take_profit_limit_orders EXCEPT
                   ![k].filled_amount = @ + filled_event.amount,
                   ![k].last_filled_at = filled_event.timestamp,
                   ![k].last_filled_price = filled_event.price]
        j == FirstWithId(tracked_orders, take_profit_limit_orders[k].tracked_order)
        reduced == tracked_orders[j].filled_amount - filled_event.amount
    IN  IF k = 0
        THEN [cmds |-> <<>>, tracked_orders |-> tracked_orders,
              take_profit_limit_orders |-> take_profit_limit_orders]
        ELSE [cmds |-> <<>>, take_profit_limit_orders |-> tps,
              tracked_orders |->
                  IF j = 0 THEN tracked_orders
                  ELSE [tracked_orders EXCEPT ![j].filled_amount = reduced]]

\* The take-profit branch terminating the parent order at the clock's time
\* instead of the event's.
did_fill_take_profit_terminates_at_now(filled_event) ==
    LET k == FirstWithId(take_profit_limit_orders, filled_event.order_id)
        tps == [take_profit_limit_orders EXCEPT
                   ![k].filled_amount = @ + filled_event.amount,
                   ![k].last_filled_at = filled_event.timestamp,
                   ![k].last_filled_price = filled_event.price]
        j == FirstWithId(tracked_orders, take_profit_limit_orders[k].tracked_order)
        reduced == tracked_orders[j].filled_amount - filled_event.amount
    IN  IF k = 0
        THEN [cmds |-> <<>>, tracked_orders |-> tracked_orders,
              take_profit_limit_orders |-> take_profit_limit_orders]
        ELSE [cmds |-> <<>>, take_profit_limit_orders |-> tps,
              tracked_orders |->
                  IF j = 0 THEN tracked_orders
                  ELSE IF reduced = 0
                  THEN [tracked_orders EXCEPT ![j].filled_amount = reduced,
                                              ![j].terminated_at = now,
                                              ![j].close_type = "TAKE_PROFIT"]
                  ELSE [tracked_orders EXCEPT ![j].filled_amount = reduced]]

\* The take-profit branch dropping the take-profit order from the registry
\* once it is filled whole.
did_fill_take_profit_removes_when_full(filled_event) ==
    LET k == FirstWithId(take_profit_limit_orders, filled_event.order_id)
        tps == [take_profit_limit_orders EXCEPT
                   ![k].filled_amount = @ + filled_event.amount,
                   ![k].last_filled_at = filled_event.timestamp,
                   ![k].last_filled_price = filled_event.price]
        j == FirstWithId(tracked_orders, take_profit_limit_orders[k].tracked_order)
        reduced == tracked_orders[j].filled_amount - filled_event.amount
    IN  IF k = 0
        THEN [cmds |-> <<>>, tracked_orders |-> tracked_orders,
              take_profit_limit_orders |-> take_profit_limit_orders]
        ELSE [cmds |-> <<>>,
              take_profit_limit_orders |->
                  IF tps[k].filled_amount = tps[k].amount THEN RemoveAt(tps, k) ELSE tps,
              tracked_orders |->
                  IF j = 0 THEN tracked_orders
                  ELSE IF reduced = 0
                  THEN [tracked_orders EXCEPT ![j].filled_amount = reduced,
                                              ![j].terminated_at = filled_event.timestamp,
                                              ![j].close_type = "TAKE_PROFIT"]
                  ELSE [tracked_orders EXCEPT ![j].filled_amount = reduced]]

\* The take-profit branch of did_fill_order (lines 310-340).
did_fill_take_profit(filled_event) ==
    LET k == FirstWithId(take_profit_limit_orders, filled_event.order_id)
        tps == [take_profit_limit_orders EXCEPT
                   ![k].filled_amount = @ + filled_event.amount,
                   ![k].last_filled_at = filled_event.timestamp,
                   ![k].last_filled_price = filled_event.price]
        j == FirstWithId(tracked_orders, take_profit_limit_orders[k].tracked_order)
        reduced == tracked_orders[j].filled_amount - filled_event.amount
    IN  IF k = 0
        THEN [cmds |-> <<>>, tracked_orders |-> tracked_orders,
              take_profit_limit_orders |-> take_profit_limit_orders]
        ELSE [cmds |-> <<>>, take_profit_limit_orders |-> tps,
              tracked_orders |->
                  IF j = 0 THEN tracked_orders
                  ELSE IF reduced = 0
                  THEN [tracked_orders EXCEPT ![j].filled_amount = reduced,
                                              ![j].terminated_at = filled_event.timestamp,
                                              ![j].close_type = "TAKE_PROFIT"]
                  ELSE [tracked_orders EXCEPT ![j].filled_amount = reduced]]

\* The entry branch making the take-profit order for the whole amount of the
\* tracked order instead of the amount of the fill.
did_fill_entry_tp_for_whole_amount(filled_event, new_id) ==
    LET j == FirstWithId(tracked_orders, filled_event.order_id)
        tos == [tracked_orders EXCEPT
                   ![j].filled_amount = @ + filled_event.amount,
                   ![j].last_filled_at = filled_event.timestamp,
                   ![j].last_filled_price = filled_event.price]
        take_profit_delta == tracked_orders[j].triple_barrier.take_profit_delta
        tp_order_type == tracked_orders[j].triple_barrier.take_profit_order_type
        created == create_tp_limit_order(take_profit_limit_orders, tos[j], tos[j].amount,
                       compute_take_profit_price(tos[j].side, filled_event.price,
                                                 take_profit_delta), new_id)
    IN  IF j = 0
        THEN [cmds |-> <<>>, tracked_orders |-> tracked_orders,
              take_profit_limit_orders |-> take_profit_limit_orders]
        ELSE IF take_profit_delta # None /\ tp_order_type = "LIMIT"
        THEN [cmds |-> created.cmds, tracked_orders |-> tos,
              take_profit_limit_orders |-> created.take_profit_limit_orders]
        ELSE [cmds |-> <<>>, tracked_orders |-> tos,
              take_profit_limit_orders |-> take_profit_limit_orders]

\* The entry branch of did_fill_order (lines 342-358); new_id is the id the
\* gateway returns if a take-profit order is submitted.
did_fill_entry(filled_event, new_id) ==
    LET j == FirstWithId(tracked_orders, filled_event.order_id)
        tos == [tracked_orders EXCEPT
                   ![j].filled_amount = @ + filled_event.amount,
                   ![j].last_filled_at = filled_event.timestamp,
                   ![j].last_filled_price = filled_event.price]
        take_profit_delta == tracked_orders[j].triple_barrier.take_profit_delta
        tp_order_type == tracked_orders[j].triple_barrier.take_profit_order_type
        created == create_tp_limit_order(take_profit_limit_orders, tos[j], filled_event.amount,
                       compute_take_profit_price(tos[j].side, filled_event.price,
                                                 take_profit_delta), new_id)
    IN  IF j = 0
        THEN [cmds |-> <<>>, tracked_orders |-> tracked_orders,
              take_profit_limit_orders |-> take_profit_limit_orders]
        ELSE IF take_profit_delta # None /\ tp_order_type = "LIMIT"
        THEN [cmds |-> created.cmds, tracked_orders |-> tos,
              take_profit_limit_orders |-> created.take_profit_limit_orders]
        ELSE [cmds |-> <<>>, tracked_orders |-> tos,
              take_profit_limit_orders |-> take_profit_limit_orders]

\* The handler taking only "CLOSE" for a take-profit fill.
did_fill_order_absent_is_entry(filled_event, new_id) ==
    IF filled_event.position = "CLOSE"
    THEN did_fill_take_profit(filled_event)
    ELSE did_fill_entry(filled_event, new_id)

did_fill_order(filled_event, new_id) ==
    IF filled_event.position = "" \/ filled_event.position = "CLOSE"
    THEN did_fill_take_profit(filled_event)
    ELSE did_fill_entry(filled_event, new_id)

\* The handler setting terminated_at and leaving close_type as it is.
did_cancel_order_without_close_type(cancelled_event) ==
    LET j == FirstWithId(tracked_orders, cancelled_event.order_id)
        k == FirstWithId(take_profit_limit_orders, cancelled_event.order_id)
    IN  [tracked_orders |->
             IF j = 0 THEN tracked_orders
             ELSE [tracked_orders EXCEPT ![j].terminated_at = now],
         take_profit_limit_orders |->
             IF k = 0 THEN take_profit_limit_orders
             ELSE RemoveAt(take_profit_limit_orders, k)]

\* The handler without the removal of the take-profit order.
did_cancel_order_keeps_take_profit(cancelled_event) ==
    LET j == FirstWithId(tracked_orders, cancelled_event.order_id)
    IN  [tracked_orders |->
             IF j = 0 THEN tracked_orders
             ELSE [tracked_orders EXCEPT ![j].terminated_at = now,
                                         ![j].close_type = "EXPIRED"],
         take_profit_limit_orders |-> take_profit_limit_orders]

did_cancel_order(cancelled_event) ==
    LET j == FirstWithId(tracked_orders, cancelled_event.order_id)
        k == FirstWithId(take_profit_limit_orders, cancelled_event.order_id)
    IN  [tracked_orders |->
             IF j = 0 THEN tracked_orders
             ELSE [tracked_orders EXCEPT ![j].terminated_at = now,
                                         ![j].close_type = "EXPIRED"],
         take_profit_limit_orders |->
             IF k = 0 THEN take_profit_limit_orders
             ELSE RemoveAt(take_profit_limit_orders, k)]

-----------------------------------------------------------------------------
(* The periodic evaluation (pk_strategy.py 397-435) *)

RECURSIVE check_unfilled_loop(_, _)
check_unfilled_loop(unfilled_orders, out) ==
    IF unfilled_orders = <<>> THEN out
    ELSE check_unfilled_loop(Tail(unfilled_orders),
             IF has_unfilled_order_expired(Head(unfilled_orders), unfilled_order_expiration, now)
             THEN out \o cancel_unfilled_order(Head(unfilled_orders))
             ELSE out)

\* The pass over the unfilled sell orders alone.
check_unfilled_orders_sell_side_only ==
    LET unfilled == get_unfilled_tracked_orders_by_side("")
    IN  IF unfilled_order_expiration = None THEN <<>>
        ELSE check_unfilled_loop(unfilled[1], <<>>)

check_unfilled_orders ==
    LET unfilled == get_unfilled_tracked_orders_by_side("")
    IN  IF unfilled_order_expiration = None THEN <<>>
        ELSE check_unfilled_loop(unfilled[1] \o unfilled[2], <<>>)

\* The loop body with the time limit tested before the stop loss.
check_trading_order_time_limit_first(tos, filled_order, current_price) ==
    IF has_filled_order_reached_time_limit(filled_order, now)
    THEN LET closed == close_filled_order(tos, filled_order,
                           filled_order.triple_barrier.time_limit_order_type, "TIME_LIMIT")
         IN  [cmds |-> closed.cmds \o cancel_take_profit_for_order(filled_order),
              tracked_orders |-> closed.tracked_orders]
    ELSE IF has_current_price_reached_stop_loss(filled_order, current_price)
    THEN LET closed == close_filled_order(tos, filled_order, "MARKET", "STOP_LOSS")
         IN  [cmds |-> closed.cmds \o cancel_take_profit_for_order(filled_order),
              tracked_orders |-> closed.tracked_orders]
    ELSE IF /\ Len(get_unfilled_tp_limit_orders(filled_order)) = 0
            /\ has_current_price_reached_take_profit(filled_order, current_price)
    THEN close_filled_order(tos, filled_order,
             filled_order.triple_barrier.take_profit_order_type, "TAKE_PROFIT")
    ELSE [cmds |-> <<>>, tracked_orders |-> tos]

\* The loop body without the continue after the take-profit close: the time
\* limit is tested as well.
check_trading_order_no_continue(tos, filled_order, current_price) ==
    IF has_current_price_reached_stop_loss(filled_order, current_price)
    THEN LET closed == close_filled_order(tos, filled_order, "MARKET", "STOP_LOSS")
         IN  [cmds |-> closed.cmds \o cancel_take_profit_for_order(filled_order),
              tracked_orders |-> closed.tracked_orders]
    ELSE LET took == IF /\ Len(get_unfilled_tp_limit_orders(filled_order)) = 0
                        /\ has_current_price_reached_take_profit(filled_order, current_price)
                     THEN close_filled_order(tos, filled_order,
                              filled_order.triple_barrier.take_profit_order_type,
                              "TAKE_PROFIT")
                     ELSE [cmds |-> <<>>, tracked_orders |-> tos]
         IN  IF has_filled_order_reached_time_limit(filled_order, now)
             THEN LET closed == close_filled_order(took.tracked_orders, filled_order,
                                    filled_order.triple_barrier.time_limit_order_type,
                                    "TIME_LIMIT")
                  IN  [cmds |-> took.cmds \o closed.cmds
                                   \o cancel_take_profit_for_order(filled_order),
                       tracked_orders |-> closed.tracked_orders]
             ELSE took

\* The loop body closing by take profit whether or not an unfilled
\* take-profit order of the order exists.
check_trading_order_tp_regardless(tos, filled_order, current_price) ==
    IF has_current_price_reached_stop_loss(filled_order, current_price)
    THEN LET closed == close_filled_order(tos, filled_order, "MARKET", "STOP_LOSS")
         IN  [cmds |-> closed.cmds \o cancel_take_profit_for_order(filled_order),
              tracked_orders |-> closed.tracked_orders]
    ELSE IF has_current_price_reached_take_profit(filled_order, current_price)
    THEN close_filled_order(tos, filled_order,
             filled_order.triple_barrier.take_profit_order_type, "TAKE_PROFIT")
    ELSE IF has_filled_order_reached_time_limit(filled_order, now)
    THEN LET closed == close_filled_order(tos, filled_order,
                           filled_order.triple_barrier.time_limit_order_type, "TIME_LIMIT")
         IN  [cmds |-> closed.cmds \o cancel_take_profit_for_order(filled_order),
              tracked_orders |-> closed.tracked_orders]
    ELSE [cmds |-> <<>>, tracked_orders |-> tos]

\* One pass of the loop body of check_trading_orders for one filled order.
check_trading_order(tos, filled_order, current_price) ==
    IF has_current_price_reached_stop_loss(filled_order, current_price)
    THEN LET closed == close_filled_order(tos, filled_order, "MARKET", "STOP_LOSS")
         IN  [cmds |-> closed.cmds \o cancel_take_profit_for_order(filled_order),
              tracked_orders |-> closed.tracked_orders]
    ELSE IF /\ Len(get_unfilled_tp_limit_orders(filled_order)) = 0
            /\ has_current_price_reached_take_profit(filled_order, current_price)
    THEN close_filled_order(tos, filled_order,
             filled_order.triple_barrier.take_profit_order_type, "TAKE_PROFIT")
    ELSE IF has_filled_order_reached_time_limit(filled_order, now)
    THEN LET closed == close_filled_order(tos, filled_order,
                           filled_order.triple_barrier.time_limit_order_type, "TIME_LIMIT")
         IN  [cmds |-> closed.cmds \o cancel_take_profit_for_order(filled_order),
              tracked_orders |-> closed.tracked_orders]
    ELSE [cmds |-> <<>>, tracked_orders |-> tos]

RECURSIVE check_trading_loop(_, _, _, _)
check_trading_loop(filled_orders, tos, out, current_price) ==
    IF filled_orders = <<>> THEN [cmds |-> out, tracked_orders |-> tos]
    ELSE LET step == check_trading_order(tos, Head(filled_orders), current_price)
         IN  check_trading_loop(Tail(filled_orders), step.tracked_orders,
                                out \o step.cmds, current_price)

check_trading_orders(current_price) ==
    LET filled == get_filled_tracked_orders_by_side("")
    IN  check_trading_loop(filled[1] \o filled[2], tracked_orders, <<>>, current_price)

\* check_unfilled_orders changes no order, so both passes read the same registry.
check_orders(current_price) ==
    LET trading == check_trading_orders(current_price)
    IN  [cmds |-> check_unfilled_orders \o trading.cmds,
         tracked_orders |-> trading.tracked_orders]

-----------------------------------------------------------------------------
(* The exchange gateway: it keeps what rests of every submitted entry and
   take-profit order, and the cancel commands it has yet to answer. Events
   of close commands, whose ids the strategy never stores, are the external
   events below. *)

ExternalIds == {-1}
CloseOrderId == -2

NextOrderId == Len(ex_rest) + 1

\* The base amount of the entry orders submitted so far.
RECURSIVE SumAmount(_)
SumAmount(orders) ==
    IF orders = <<>> THEN 0 ELSE Head(orders).amount + SumAmount(Tail(orders))

Exposure == SumAmount(tracked_orders)

IsEntryId(order_id) == FirstWithId(tracked_orders, order_id) # 0

\* A cancel command is outstanding while something of the order rests.
CancelsOf(issued) ==
    {issued[i].order_id : i \in {n \in DOMAIN issued : issued[n].cmd = "cancel"}}

Outstanding(cancels, rest) == {id \in cancels : id \in DOMAIN rest /\ rest[id] > 0}

\* The number of close commands among the issued commands; the gateway's id
\* of a close order is dropped by close_filled_order, so the registries never
\* hold it.
ClosesIn(issued) == Cardinality({n \in DOMAIN issued : issued[n].position = "CLOSE"
                                                      /\ issued[n].closes # None})

\* The open position of a tracked order as the exchange has it: its entry
\* fills, less the fills of its take-profit orders, less the amounts of the
\* close commands for it. An order without an entry is at 0.
PositionOf(position, order_id) ==
    IF order_id \in DOMAIN position THEN position[order_id] ELSE 0

PositionAdd(position, order_id, delta) ==
    [id \in DOMAIN position \cup {order_id} |->
        PositionOf(position, id) + (IF id = order_id THEN delta ELSE 0)]

RECURSIVE PositionClosed(_, _)
PositionClosed(position, issued) ==
    IF issued = <<>> THEN position
    ELSE PositionClosed(
             IF Head(issued).position = "CLOSE" /\ Head(issued).closes # None
             THEN PositionAdd(position, Head(issued).closes, 0 - Head(issued).amount)
             ELSE position,
             Tail(issued))

\* The position after a fill of the order with the id: an entry fill adds to
\* the position of its order, a take-profit fill takes from the position of
\* its parent.
PositionFilled(position, order_id, amount) ==
    LET k == FirstWithId(take_profit_limit_orders, order_id)
    IN  IF k # 0
        THEN PositionAdd(position, take_profit_limit_orders[k].tracked_order, 0 - amount)
        ELSE PositionAdd(position, order_id, amount)

\* A fill event is stamped by the exchange: at the strategy's clock or a
\* second before it.
EventTimestamps == {t \in {now - 1, now} : t >= 1}

-----------------------------------------------------------------------------
(* Specification *)

Init ==
    /\ tracked_orders = <<>>
    /\ take_profit_limit_orders = <<>>
    /\ is_a_sell_order_being_created = FALSE
    /\ is_a_buy_order_being_created = FALSE
    /\ now = 1
    /\ cmds = <<>>
    /\ ex_rest = <<>>
    /\ ex_cancel = {}
    /\ ex_unconfirmed = {}
    /\ ex_closing = 0
    /\ ex_position = <<>>
    /\ creating = <<>>
    /\ context = <<>>
    /\ unfilled_order_expiration \in Expirations

\* The driving strategy asks can_create_order and then calls create_order;
\* the gateway returns an order id.
CreateOrder(side, entry_price, triple_barrier, amount_quote, ref, cooldown_time_min) ==
    LET created == create_individual_order(
                       get_executor_config(side, entry_price, amount_quote),
                       triple_barrier, ref, NextOrderId)
    IN  /\ can_create_order(side, amount_quote, ref, cooldown_time_min)
        /\ tracked_orders' = created.tracked_orders
        /\ cmds' = created.cmds
        /\ is_a_sell_order_being_created' =
               IF side = SELL THEN FALSE ELSE is_a_sell_order_being_created
        /\ is_a_buy_order_being_created' =
               IF side = SELL THEN is_a_buy_order_being_created ELSE FALSE
        /\ ex_rest' = Append(ex_rest, created.cmds[1].amount)
        /\ ex_unconfirmed' = ex_unconfirmed \cup {NextOrderId}
        /\ UNCHANGED <<context, ex_position, creating, ex_closing, unfilled_order_expiration, take_profit_limit_orders, now, ex_cancel>>

\* The same call when the gateway's buy or sell raises: the statements after
\* the call (lines 164-176, 183-195) do not run.
CreateOrderRaises(side, amount_quote, ref, cooldown_time_min) ==
    /\ can_create_order(side, amount_quote, ref, cooldown_time_min)
    /\ is_a_sell_order_being_created' =
           IF side = SELL THEN TRUE ELSE is_a_sell_order_being_created
    /\ is_a_buy_order_being_created' =
           IF side = SELL THEN is_a_buy_order_being_created ELSE TRUE
    /\ cmds' = <<>>
    /\ UNCHANGED <<context, ex_position, creating, ex_closing, unfilled_order_expiration, tracked_orders, take_profit_limit_orders, now, ex_rest, ex_cancel,
                   ex_unconfirmed>>

\* A tick: check_orders at the mid price the market data provider gives.
CheckOrders(current_price) ==
    LET checked == check_orders(current_price)
    IN  /\ tracked_orders' = checked.tracked_orders
        /\ cmds' = checked.cmds
        /\ ex_cancel' = Outstanding(ex_cancel \cup CancelsOf(checked.cmds), ex_rest)
        /\ ex_closing' = ex_closing + ClosesIn(checked.cmds)
        /\ ex_position' = PositionClosed(ex_position, checked.cmds)
        /\ UNCHANGED <<context, creating, unfilled_order_expiration, take_profit_limit_orders, is_a_sell_order_being_created,
                       is_a_buy_order_being_created, now, ex_rest, ex_unconfirmed>>

\* The driving strategy closes the filled orders of one side and ref
\* (savings.py 176-183).
CloseFilledOrders(side, ref) ==
    LET filled == get_filled_tracked_orders_by_side(ref)
        filled_orders == IF side = SELL THEN filled[1] ELSE filled[2]
        closed == close_filled_orders(filled_orders, "MARKET", "TAKE_PROFIT")
    IN  /\ Len(filled_orders) > 0
        /\ tracked_orders' = closed.tracked_orders
        /\ cmds' = closed.cmds
        /\ ex_cancel' = Outstanding(ex_cancel \cup CancelsOf(closed.cmds), ex_rest)
        /\ ex_closing' = ex_closing + ClosesIn(closed.cmds)
        /\ ex_position' = PositionClosed(ex_position, closed.cmds)
        /\ UNCHANGED <<context, creating, unfilled_order_expiration, take_profit_limit_orders, is_a_sell_order_being_created,
                       is_a_buy_order_being_created, now, ex_rest, ex_unconfirmed>>

\* The exchange confirms the creation of an entry order; it does so before
\* it reports a fill or the cancellation of the order.
EvCreated(order_id) ==
    LET created_event == [order_id |-> order_id, exchange_order_id |-> order_id,
                          position |-> "OPEN"]
        side == tracked_orders[FirstWithId(tracked_orders, order_id)].side
    IN  /\ order_id \in ex_unconfirmed
        /\ tracked_orders' = IF side = SELL THEN did_create_sell_order(created_event)
                             ELSE did_create_buy_order(created_event)
        /\ cmds' = <<>>
        /\ ex_unconfirmed' = ex_unconfirmed \ {order_id}
        /\ UNCHANGED <<context, ex_position, creating, ex_closing, unfilled_order_expiration, take_profit_limit_orders, is_a_sell_order_being_created,
                       is_a_buy_order_being_created, now, ex_rest, ex_cancel>>

\* The exchange fills part or all of what rests of an order: an entry order
\* at a market price, a take-profit order at its limit price.
EvFilled(order_id, amount, price, timestamp) ==
    LET filled_event == [order_id |-> order_id, amount |-> amount, price |-> price,
                         timestamp |-> timestamp,
                         position |-> IF IsEntryId(order_id) THEN "OPEN" ELSE "CLOSE"]
        filled == did_fill_order(filled_event, NextOrderId)
        rest == [ex_rest EXCEPT ![order_id] = @ - amount]
        submitted == {n \in DOMAIN filled.cmds : filled.cmds[n].cmd # "cancel"}
    IN  /\ order_id \in DOMAIN ex_rest
        /\ order_id \notin ex_unconfirmed
        /\ amount \in 1..ex_rest[order_id]
        /\ IF IsEntryId(order_id) THEN price \in FillPrices
           ELSE price = take_profit_limit_orders[
                            FirstWithId(take_profit_limit_orders, order_id)].entry_price
        /\ tracked_orders' = filled.tracked_orders
        /\ take_profit_limit_orders' = filled.take_profit_limit_orders
        /\ cmds' = filled.cmds
        /\ ex_rest' = IF submitted = {} THEN rest ELSE Append(rest, filled.cmds[1].amount)
        /\ ex_cancel' = Outstanding(ex_cancel, rest)
        /\ ex_position' = PositionFilled(ex_position, order_id, amount)
        /\ UNCHANGED <<context, creating, ex_closing, unfilled_order_expiration, is_a_sell_order_being_created, is_a_buy_order_being_created, now,
                       ex_unconfirmed>>

\* The exchange answers a cancel command for an order that still rests.
EvCancelled(order_id) ==
    LET cancelled == did_cancel_order([order_id |-> order_id])
    IN  /\ order_id \in ex_cancel
        /\ order_id \notin ex_unconfirmed
        /\ tracked_orders' = cancelled.tracked_orders
        /\ take_profit_limit_orders' = cancelled.take_profit_limit_orders
        /\ cmds' = <<>>
        /\ ex_rest' = [ex_rest EXCEPT ![order_id] = 0]
        /\ ex_cancel' = ex_cancel \ {order_id}
        /\ UNCHANGED <<context, ex_position, creating, ex_closing, unfilled_order_expiration, is_a_sell_order_being_created, is_a_buy_order_being_created, now,
                       ex_unconfirmed>>

\* An event of an order the registries do not hold: the creation or the fill
\* of a close command, or the cancellation of an order placed by hand.
EvExternal(kind, order_id, side, position) ==
    LET event == [order_id |-> order_id, exchange_order_id |-> order_id, amount |-> 1,
                  price |-> 100, timestamp |-> now, position |-> position]
        filled == did_fill_order(event, NextOrderId)
        cancelled == did_cancel_order(event)
    IN  /\ order_id \in ExternalIds
        /\ tracked_orders' =
               CASE kind = "created" ->
                        IF side = SELL THEN did_create_sell_order(event)
                        ELSE did_create_buy_order(event)
                 [] kind = "filled" -> filled.tracked_orders
                 [] kind = "cancelled" -> cancelled.tracked_orders
        /\ take_profit_limit_orders' =
               CASE kind = "created" -> take_profit_limit_orders
                 [] kind = "filled" -> filled.take_profit_limit_orders
                 [] kind = "cancelled" -> cancelled.take_profit_limit_orders
        /\ cmds' = IF kind = "filled" THEN filled.cmds ELSE <<>>
        /\ UNCHANGED <<context, ex_position, creating, ex_closing, unfilled_order_expiration, is_a_sell_order_being_created,
                       is_a_buy_order_being_created, now, ex_rest, ex_cancel, ex_unconfirmed>>

\* The exchange reports the fill of a close order, whose id no registry holds.
EvCloseFilled(amount) ==
    LET filled_event == [order_id |-> CloseOrderId, amount |-> amount, price |-> 100,
                         timestamp |-> now, position |-> "CLOSE"]
        filled == did_fill_order(filled_event, NextOrderId)
    IN  /\ ex_closing > 0
        /\ tracked_orders' = filled.tracked_orders
        /\ take_profit_limit_orders' = filled.take_profit_limit_orders
        /\ cmds' = filled.cmds
        /\ ex_closing' = ex_closing - 1
        /\ UNCHANGED <<context, ex_position, creating, unfilled_order_expiration, is_a_sell_order_being_created,
                       is_a_buy_order_being_created, now, ex_rest, ex_cancel, ex_unconfirmed>>

\* The exchange reports for a take-profit order a fill of more than rests of
\* it (a fill reported twice, or an overfill), once per take-profit order.
EvOverfilled(order_id, amount, timestamp) ==
    LET k == FirstWithId(take_profit_limit_orders, order_id)
        filled_event == [order_id |-> order_id, amount |-> amount,
                         price |-> take_profit_limit_orders[k].entry_price,
                         timestamp |-> timestamp, position |-> "CLOSE"]
        filled == did_fill_order(filled_event, NextOrderId)
    IN  /\ k # 0
        /\ amount > ex_rest[order_id]
        /\ take_profit_limit_orders[k].filled_amount <= take_profit_limit_orders[k].amount
        /\ tracked_orders' = filled.tracked_orders
        /\ take_profit_limit_orders' = filled.take_profit_limit_orders
        /\ cmds' = filled.cmds
        /\ ex_rest' = [ex_rest EXCEPT ![order_id] = 0]
        /\ ex_cancel' = ex_cancel \ {order_id}
        /\ ex_position' = PositionFilled(ex_position, order_id, amount)
        /\ UNCHANGED <<context, creating, ex_closing, unfilled_order_expiration, is_a_sell_order_being_created,
                       is_a_buy_order_being_created, now, ex_unconfirmed>>

\* create_individual_order up to the return of self.sell / self.buy (lines
\* 159-162, 178-181): the latch is set and the gateway has the command and
\* has issued the order id; the record is not appended yet.
CreateOrderSubmit(side, entry_price, triple_barrier, amount_quote, ref, cooldown_time_min) ==
    LET created == create_individual_order(
                       get_executor_config(side, entry_price, amount_quote),
                       triple_barrier, ref, NextOrderId)
    IN  /\ creating = <<>>
        /\ can_create_order(side, amount_quote, ref, cooldown_time_min)
        /\ creating' = << [side |-> side, entry_price |-> entry_price,
                            triple_barrier |-> triple_barrier,
                            amount_quote |-> amount_quote, ref |-> ref,
                            order_id |-> NextOrderId] >>
        /\ cmds' = created.cmds
        /\ is_a_sell_order_being_created' =
               IF side = SELL THEN TRUE ELSE is_a_sell_order_being_created
        /\ is_a_buy_order_being_created' =
               IF side = SELL THEN is_a_buy_order_being_created ELSE TRUE
        /\ ex_rest' = Append(ex_rest, created.cmds[1].amount)
        /\ ex_unconfirmed' = ex_unconfirmed \cup {NextOrderId}
        /\ UNCHANGED <<context, ex_position, ex_closing, unfilled_order_expiration, tracked_orders,
                       take_profit_limit_orders, now, ex_cancel>>

\* The rest of the call (lines 164-176, 183-195): the record is appended with
\* the returned id and the latch is released.
CreateOrderReturn ==
    LET call == creating[1]
        created == create_individual_order(
                       get_executor_config(call.side, call.entry_price, call.amount_quote),
                       call.triple_barrier, call.ref, call.order_id)
    IN  /\ creating # <<>>
        /\ creating' = <<>>
        /\ tracked_orders' = created.tracked_orders
        /\ is_a_sell_order_being_created' =
               IF call.side = SELL THEN FALSE ELSE is_a_sell_order_being_created
        /\ is_a_buy_order_being_created' =
               IF call.side = SELL THEN is_a_buy_order_being_created ELSE FALSE
        /\ UNCHANGED <<context, ex_position, ex_closing, unfilled_order_expiration, take_profit_limit_orders, now,
                       cmds, ex_rest, ex_cancel, ex_unconfirmed>>

\* The creation event of the order of the call in flight, delivered before
\* the call returns.
EvCreatedEarly ==
    LET call == creating[1]
        created_event == [order_id |-> call.order_id, exchange_order_id |-> call.order_id,
                          position |-> "OPEN"]
    IN  /\ creating # <<>>
        /\ call.order_id \in ex_unconfirmed
        /\ tracked_orders' = IF call.side = SELL THEN did_create_sell_order(created_event)
                             ELSE did_create_buy_order(created_event)
        /\ cmds' = <<>>
        /\ ex_unconfirmed' = ex_unconfirmed \ {call.order_id}
        /\ UNCHANGED <<context, ex_position, creating, ex_closing, unfilled_order_expiration,
                       take_profit_limit_orders, is_a_sell_order_being_created,
                       is_a_buy_order_being_created, now, ex_rest, ex_cancel>>

\* A fill event of the order of the call in flight, delivered before the
\* call returns.
EvFilledEarly(amount, price, timestamp) ==
    LET call == creating[1]
        filled_event == [order_id |-> call.order_id, amount |-> amount, price |-> price,
                         timestamp |-> timestamp, position |-> "OPEN"]
        filled == did_fill_order(filled_event, NextOrderId)
        submitted == {n \in DOMAIN filled.cmds : filled.cmds[n].cmd # "cancel"}
        rest == [ex_rest EXCEPT ![call.order_id] = @ - amount]
    IN  /\ creating # <<>>
        /\ call.order_id \notin ex_unconfirmed
        /\ amount \in 1..ex_rest[call.order_id]
        /\ tracked_orders' = filled.tracked_orders
        /\ take_profit_limit_orders' = filled.take_profit_limit_orders
        /\ cmds' = filled.cmds
        /\ ex_rest' = IF submitted = {} THEN rest ELSE Append(rest, filled.cmds[1].amount)
        /\ ex_cancel' = Outstanding(ex_cancel, rest)
        /\ ex_position' = PositionFilled(ex_position, call.order_id, amount)
        /\ UNCHANGED <<context, creating, ex_closing, unfilled_order_expiration,
                       is_a_sell_order_being_created, is_a_buy_order_being_created, now,
                       ex_unconfirmed>>

\* A fill event with the position the connector reports: "OPEN" or none for
\* an entry order, "CLOSE" for a take-profit order.
EvFilledAs(order_id, amount, price, timestamp, position) ==
    LET filled_event == [order_id |-> order_id, amount |-> amount, price |-> price,
                         timestamp |-> timestamp, position |-> position]
        filled == did_fill_order(filled_event, NextOrderId)
        rest == [ex_rest EXCEPT ![order_id] = @ - amount]
        submitted == {n \in DOMAIN filled.cmds : filled.cmds[n].cmd # "cancel"}
    IN  /\ order_id \in DOMAIN ex_rest
        /\ order_id \notin ex_unconfirmed
        /\ amount \in 1..ex_rest[order_id]
        /\ IF IsEntryId(order_id) THEN price \in FillPrices /\ position \in {"OPEN", ""}
           ELSE /\ position = "CLOSE"
                /\ price = take_profit_limit_orders[
                               FirstWithId(take_profit_limit_orders, order_id)].entry_price
        /\ tracked_orders' = filled.tracked_orders
        /\ take_profit_limit_orders' = filled.take_profit_limit_orders
        /\ cmds' = filled.cmds
        /\ ex_rest' = IF submitted = {} THEN rest ELSE Append(rest, filled.cmds[1].amount)
        /\ ex_cancel' = Outstanding(ex_cancel, rest)
        /\ ex_position' = PositionFilled(ex_position, order_id, amount)
        /\ UNCHANGED <<context, creating, ex_closing, unfilled_order_expiration,
                       is_a_sell_order_being_created, is_a_buy_order_being_created, now,
                       ex_unconfirmed>>

\* The clock moves on to its next point.
Advance ==
    /\ \E t \in TimePoints : t > now
    /\ now' = Min({t \in TimePoints : t > now})
    /\ UNCHANGED <<context, ex_position, creating, ex_closing, unfilled_order_expiration, tracked_orders, take_profit_limit_orders,
                   is_a_sell_order_being_created, is_a_buy_order_being_created, cmds,
                   ex_rest, ex_cancel, ex_unconfirmed>>

\* One entry order of two base units, which the exchange may fill in parts.
Next ==
    \/ \E side \in Sides, entry_price \in EntryPrices, triple_barrier \in Barriers,
          amount_quote \in {0, 200}, ref \in OrderRefs, cooldown_time_min \in Cooldowns :
          /\ Exposure + amount_quote \div entry_price <= MaxExposure
          /\ CreateOrder(side, entry_price, triple_barrier, amount_quote, ref,
                         cooldown_time_min)
    \/ \E side \in Sides, amount_quote \in {0, 200}, ref \in OrderRefs,
          cooldown_time_min \in Cooldowns :
          /\ Exposure + amount_quote \div 100 <= MaxExposure
          /\ CreateOrderRaises(side, amount_quote, ref, cooldown_time_min)
    \/ \E current_price \in MidPrices : CheckOrders(current_price)
    \/ \E side \in Sides, ref \in OrderRefs : CloseFilledOrders(side, ref)
    \/ \E order_id \in ex_unconfirmed : EvCreated(order_id)
    \/ \E order_id \in DOMAIN ex_rest, amount \in 1..2, price \in FillPrices \cup {95, 105},
          timestamp \in EventTimestamps : EvFilled(order_id, amount, price, timestamp)
    \/ \E order_id \in ex_cancel : EvCancelled(order_id)
    \/ \E kind \in {"created", "filled", "cancelled"}, order_id \in ExternalIds,
          side \in Sides, position \in {"OPEN", "CLOSE", ""} :
          EvExternal(kind, order_id, side, position)
    \/ \E amount \in 1..2 : EvCloseFilled(amount)
    \/ Advance

Spec == Init /\ [][Next]_vars

\* The same strategy with two entry orders of one base unit each, without
\* gateway errors, without events of foreign orders, and with fill events
\* stamped at the strategy's clock.
NextPair ==
    \/ \E side \in Sides, entry_price \in EntryPrices, triple_barrier \in Barriers,
          amount_quote \in {100}, ref \in OrderRefs, cooldown_time_min \in Cooldowns :
          /\ Exposure + amount_quote \div entry_price <= MaxExposure
          /\ CreateOrder(side, entry_price, triple_barrier, amount_quote, ref,
                         cooldown_time_min)
    \/ \E current_price \in MidPrices : CheckOrders(current_price)
    \/ \E order_id \in ex_unconfirmed : EvCreated(order_id)
    \/ \E order_id \in DOMAIN ex_rest, amount \in 1..2, price \in FillPrices \cup {95, 105},
          timestamp \in {now} : EvFilled(order_id, amount, price, timestamp)
    \/ \E order_id \in ex_cancel : EvCancelled(order_id)
    \/ Advance

SpecPair == Init /\ [][NextPair]_vars


\* Two entry orders of one base unit each, of either ref, with the barrier
\* that has all three deltas and closes by market orders.
NextRefs ==
    \/ \E side \in Sides, entry_price \in EntryPrices, amount_quote \in {100},
          ref \in Refs, cooldown_time_min \in Cooldowns :
          /\ Exposure + amount_quote \div entry_price <= MaxExposure
          /\ CreateOrder(side, entry_price,
                         TripleBarrier(5, 5, 1, "LIMIT", "MARKET", "MARKET"),
                         amount_quote, ref, cooldown_time_min)
    \/ \E current_price \in MidPrices : CheckOrders(current_price)
    \/ \E order_id \in ex_unconfirmed : EvCreated(order_id)
    \/ \E order_id \in DOMAIN ex_rest, amount \in 1..2, price \in FillPrices \cup {95, 105},
          timestamp \in {now} : EvFilled(order_id, amount, price, timestamp)
    \/ \E order_id \in ex_cancel : EvCancelled(order_id)
    \/ Advance

SpecRefs == Init /\ [][NextRefs]_vars

\* The strategy with one entry order of two base units, without gateway
\* errors and foreign events, and an exchange that may report more filled
\* than rests of a take-profit order.
NextOverfill ==
    \/ \E side \in Sides, entry_price \in EntryPrices, triple_barrier \in Barriers,
          amount_quote \in {200}, ref \in OrderRefs, cooldown_time_min \in Cooldowns :
          /\ Exposure + amount_quote \div entry_price <= MaxExposure
          /\ CreateOrder(side, entry_price, triple_barrier, amount_quote, ref,
                         cooldown_time_min)
    \/ \E current_price \in MidPrices : CheckOrders(current_price)
    \/ \E order_id \in ex_unconfirmed : EvCreated(order_id)
    \/ \E order_id \in DOMAIN ex_rest, amount \in 1..2, price \in FillPrices \cup {95, 105},
          timestamp \in {now} : EvFilled(order_id, amount, price, timestamp)
    \/ \E order_id \in ex_cancel : EvCancelled(order_id)
    \/ Advance
    \/ \E order_id \in DOMAIN ex_rest, amount \in 1..2, timestamp \in {now} :
          EvOverfilled(order_id, amount, timestamp)

SpecOverfill == Init /\ [][NextOverfill]_vars

\* The strategy with one entry order of two base units whose creation call
\* is two steps, the gateway's call and the rest, with the events of the new
\* order delivered in between or after.
InFlightIds == {creating[n].order_id : n \in DOMAIN creating}

NextRace ==
    \/ \E side \in Sides, entry_price \in EntryPrices, amount_quote \in {200},
          ref \in OrderRefs, cooldown_time_min \in Cooldowns :
          /\ Exposure + amount_quote \div entry_price <= MaxExposure
          /\ CreateOrderSubmit(side, entry_price,
                               TripleBarrier(5, 5, 1, "LIMIT", "LIMIT", "MARKET"),
                               amount_quote, ref, cooldown_time_min)
    \/ CreateOrderReturn
    \/ EvCreatedEarly
    \/ \E amount \in 1..2, price \in FillPrices, timestamp \in {now} :
          EvFilledEarly(amount, price, timestamp)
    \/ \E current_price \in MidPrices : CheckOrders(current_price)
    \/ \E order_id \in ex_unconfirmed \ InFlightIds : EvCreated(order_id)
    \/ \E order_id \in DOMAIN ex_rest \ InFlightIds, amount \in 1..2,
          price \in FillPrices \cup {95, 105}, timestamp \in {now} :
          EvFilled(order_id, amount, price, timestamp)
    \/ \E order_id \in ex_cancel : EvCancelled(order_id)
    \/ Advance

SpecRace == Init /\ [][NextRace]_vars

\* The strategy with one entry order of two base units and a connector that
\* may report the fills of an entry order without a position.
NextAbsent ==
    \/ \E side \in Sides, entry_price \in EntryPrices, triple_barrier \in Barriers,
          amount_quote \in {200}, ref \in OrderRefs, cooldown_time_min \in Cooldowns :
          /\ Exposure + amount_quote \div entry_price <= MaxExposure
          /\ CreateOrder(side, entry_price, triple_barrier, amount_quote, ref,
                         cooldown_time_min)
    \/ \E current_price \in MidPrices : CheckOrders(current_price)
    \/ \E order_id \in ex_unconfirmed : EvCreated(order_id)
    \/ \E order_id \in DOMAIN ex_rest, amount \in 1..2, price \in FillPrices \cup {95, 105},
          timestamp \in EventTimestamps, position \in {"OPEN", "CLOSE", ""} :
          EvFilledAs(order_id, amount, price, timestamp, position)
    \/ \E order_id \in ex_cancel : EvCancelled(order_id)
    \/ Advance

SpecAbsent == Init /\ [][NextAbsent]_vars

\* One entry order of two base units under a fair schedule: the tick keeps
\* running (it is a periodic callback), the clock moves on while it has a
\* next point, and the exchange delivers the creation event of every order
\* and the cancellation event of every cancel command it has outstanding.
\* Fills are the market's and are under no fairness.
Tick == \E current_price \in MidPrices : CheckOrders(current_price)

DeliverCreated == \E order_id \in ex_unconfirmed : EvCreated(order_id)

DeliverCancelled == \E order_id \in ex_cancel : EvCancelled(order_id)

NextExpiry ==
    \/ \E side \in Sides, entry_price \in EntryPrices, triple_barrier \in Barriers,
          amount_quote \in {200}, ref \in OrderRefs, cooldown_time_min \in Cooldowns :
          /\ Exposure + amount_quote \div entry_price <= MaxExposure
          /\ CreateOrder(side, entry_price, triple_barrier, amount_quote, ref,
                         cooldown_time_min)
    \/ Tick
    \/ DeliverCreated
    \/ \E order_id \in DOMAIN ex_rest, amount \in 1..2, price \in FillPrices,
          timestamp \in {now} : EvFilled(order_id, amount, price, timestamp)
    \/ DeliverCancelled
    \/ Advance

SpecExpiry ==
    /\ Init
    /\ [][NextExpiry]_vars
    /\ WF_vars(Tick)
    /\ WF_vars(Advance)
    /\ WF_vars(DeliverCreated)
    /\ WF_vars(DeliverCancelled)

\* The clock moves on by one second.
AdvanceSecond ==
    /\ now < MaxSeconds
    /\ now' = now + 1
    /\ UNCHANGED <<context, ex_position, creating, ex_closing, unfilled_order_expiration,
                   tracked_orders, take_profit_limit_orders,
                   is_a_sell_order_being_created, is_a_buy_order_being_created, cmds,
                   ex_rest, ex_cancel, ex_unconfirmed>>

\* The exchange fills no order after this second: the fills of an order are
\* finitely many and the clock moves on after the last of them.
FillDeadline == MaxSeconds - 2

\* The barriers of the driving strategy and the barrier that has a time limit
\* alone, which no price closes.
TimeLimitBarriers ==
    Barriers \cup { TripleBarrier(None, None, 1, "MARKET", "MARKET", "MARKET") }

\* One entry order of two base units, a clock that moves second by second,
\* and a fair schedule of the tick and the clock.
NextTimeLimit ==
    \/ \E side \in Sides, entry_price \in EntryPrices, triple_barrier \in TimeLimitBarriers,
          amount_quote \in {200}, ref \in OrderRefs, cooldown_time_min \in Cooldowns :
          /\ Exposure + amount_quote \div entry_price <= MaxExposure
          /\ CreateOrder(side, entry_price, triple_barrier, amount_quote, ref,
                         cooldown_time_min)
    \/ Tick
    \/ DeliverCreated
    \/ \E order_id \in DOMAIN ex_rest, amount \in 1..2, price \in FillPrices,
          timestamp \in {now} :
          /\ now <= FillDeadline
          /\ EvFilled(order_id, amount, price, timestamp)
    \/ DeliverCancelled
    \/ AdvanceSecond

SpecTimeLimit ==
    /\ Init
    /\ [][NextTimeLimit]_vars
    /\ WF_vars(Tick)
    /\ WF_vars(AdvanceSecond)

-----------------------------------------------------------------------------
(* The savings strategy (savings.py 88-113, 142-257): a driving strategy that
   buys when the close falls below the threshold under the last saved price
   and closes all its filled orders when the close is past the take profit
   of the average position price. context is <<>> until the first
   create_actions_proposal tick has candles (no processed_data, no
   saved_last_dca_price); close is the close of the candles that tick read. *)

ORDER_REF == "Savings"
config_amount_quote == 100     \* config.amount_quote, in the model's price unit
dca_trigger_pct == 4    \* config.dca_trigger_pct, Decimal 0.4, in tenths of a percent
tp_pct == 1             \* config.tp_pct
Closes == {98, 99, 100, 102}

get_triple_barrier == TripleBarrier(None, None, None, "MARKET", "LIMIT", "MARKET")

\* current_price < saved_last_dca_price * (1 - dca_trigger_pct / 100)
is_current_dca_price_below_threshold(ctx) ==
    ctx.close * 1000 < ctx.saved_last_dca_price * (1000 - dca_trigger_pct)

\* can_create_savings_order refusing only above pyramiding.
can_create_savings_order_exclusive(ctx, side, active_tracked_orders) ==
    IF ~can_create_order(side, config_amount_quote, ORDER_REF, 0) THEN FALSE
    ELSE IF Len(active_tracked_orders) > pyramiding THEN FALSE
    ELSE IF side = BUY THEN is_current_dca_price_below_threshold(ctx)
    ELSE FALSE

can_create_savings_order(ctx, side, active_tracked_orders) ==
    IF ~can_create_order(side, config_amount_quote, ORDER_REF, 0) THEN FALSE
    ELSE IF Len(active_tracked_orders) >= pyramiding THEN FALSE
    ELSE IF side = BUY THEN is_current_dca_price_below_threshold(ctx)
    ELSE FALSE

RECURSIVE SumCost(_)
SumCost(orders) ==
    IF orders = <<>> THEN 0
    ELSE Head(orders).filled_amount * Head(orders).last_filled_price + SumCost(Tail(orders))

RECURSIVE SumFilledAmount(_)
SumFilledAmount(orders) ==
    IF orders = <<>> THEN 0 ELSE Head(orders).filled_amount + SumFilledAmount(Tail(orders))

compute_avg_position_price(filled_buy_orders) ==
    SumCost(filled_buy_orders) \div SumFilledAmount(filled_buy_orders)

has_avg_position_reached_tp(ctx, side, filled_buy_orders) ==
    ctx.close > compute_take_profit_price(side,
                    compute_avg_position_price(filled_buy_orders), tp_pct)

\* reset_context: save_last_dca_price and buy_counter = 0
reset_context(ctx) == [ctx EXCEPT !.saved_last_dca_price = ctx.close, !.buy_counter = 0]

\* create_actions_proposal with candles whose latest close is close: the
\* candles are stored, the context is made at the first call, and
\* create_actions_proposal_savings creates at most one order.
CreateActionsProposal(close) ==
    LET read == IF context = <<>>
                THEN reset_context([close |-> close, saved_last_dca_price |-> close,
                                    buy_counter |-> 0])
                ELSE [context EXCEPT !.close = close]
        active_buy_orders == get_active_tracked_orders_by_side(ORDER_REF)[2]
        created == create_individual_order(
                       get_executor_config(BUY, read.close, config_amount_quote),
                       get_triple_barrier, ORDER_REF, NextOrderId)
    IN  IF can_create_savings_order(read, BUY, active_buy_orders)
        THEN /\ Len(tracked_orders) < MaxOrders
             /\ tracked_orders' = created.tracked_orders
             /\ cmds' = created.cmds
             /\ is_a_buy_order_being_created' = FALSE
             /\ ex_rest' = Append(ex_rest, created.cmds[1].amount)
             /\ ex_unconfirmed' = ex_unconfirmed \cup {NextOrderId}
             /\ context' = [read EXCEPT !.saved_last_dca_price = read.close,
                                        !.buy_counter = @ + 1]
             /\ UNCHANGED <<ex_position, creating, ex_closing, unfilled_order_expiration,
                            take_profit_limit_orders, is_a_sell_order_being_created, now,
                            ex_cancel>>
        ELSE /\ context' = read
             /\ cmds' = <<>>
             /\ UNCHANGED <<ex_position, creating, ex_closing, unfilled_order_expiration,
                            tracked_orders, take_profit_limit_orders,
                            is_a_sell_order_being_created, is_a_buy_order_being_created,
                            now, ex_rest, ex_cancel, ex_unconfirmed>>

\* The same tick when the gateway's buy raises inside create_order: the
\* candles are stored and the latch is set, no order is tracked, and
\* save_last_dca_price and increment_buy_counter (lines 157-160) do not run.
CreateActionsProposalRaises(close) ==
    LET read == IF context = <<>>
                THEN reset_context([close |-> close, saved_last_dca_price |-> close,
                                    buy_counter |-> 0])
                ELSE [context EXCEPT !.close = close]
        active_buy_orders == get_active_tracked_orders_by_side(ORDER_REF)[2]
    IN  /\ can_create_savings_order(read, BUY, active_buy_orders)
        /\ is_a_buy_order_being_created' = TRUE
        /\ context' = read
        /\ cmds' = <<>>
        /\ UNCHANGED <<ex_position, creating, ex_closing, unfilled_order_expiration,
                       tracked_orders, take_profit_limit_orders,
                       is_a_sell_order_being_created, now, ex_rest, ex_cancel,
                       ex_unconfirmed>>

\* stop_actions_proposal once there are candles: check_orders, then
\* stop_actions_proposal_savings. The barrier of the savings orders has no
\* delta and no time limit, so check_orders closes none of them and the
\* filled orders are the same before and after it.
StopActionsProposal(current_price) ==
    LET checked == check_orders(current_price)
        filled_buy_orders == get_filled_tracked_orders_by_side(ORDER_REF)[2]
        closing == /\ Len(filled_buy_orders) > 0
                   /\ has_avg_position_reached_tp(context, BUY, filled_buy_orders)
        closed == IF closing
                  THEN close_filled_orders_loop(filled_buy_orders, checked.tracked_orders,
                                                <<>>, "MARKET", "TAKE_PROFIT")
                  ELSE [cmds |-> <<>>, tracked_orders |-> checked.tracked_orders]
        issued == checked.cmds \o closed.cmds
    IN  /\ context # <<>>
        /\ tracked_orders' = closed.tracked_orders
        /\ cmds' = issued
        /\ context' = IF closing THEN reset_context(context) ELSE context
        /\ ex_cancel' = Outstanding(ex_cancel \cup CancelsOf(issued), ex_rest)
        /\ ex_closing' = ex_closing + ClosesIn(issued)
        /\ ex_position' = PositionClosed(ex_position, issued)
        /\ UNCHANGED <<creating, unfilled_order_expiration, take_profit_limit_orders,
                       is_a_sell_order_being_created, is_a_buy_order_being_created, now,
                       ex_rest, ex_unconfirmed>>

NextSavings ==
    \/ \E close \in Closes : CreateActionsProposal(close)
    \/ \E close \in Closes : CreateActionsProposalRaises(close)
    \/ \E current_price \in {100} : StopActionsProposal(current_price)
    \/ DeliverCreated
    \/ \E order_id \in DOMAIN ex_rest, amount \in 1..1, price \in FillPrices,
          timestamp \in {now} : EvFilled(order_id, amount, price, timestamp)
    \/ DeliverCancelled
    \/ Advance

SpecSavings == Init /\ [][NextSavings]_vars

-----------------------------------------------------------------------------
(* Claims *)

\* C1: for every tracked order, terminated_at goes from unset to set at most
\* once: once it is set, no step of the strategy gives it another value.
C1_TerminatedAtSetOnce ==
    [][\A i \in DOMAIN tracked_orders :
          tracked_orders[i].terminated_at # None =>
              tracked_orders'[i].terminated_at = tracked_orders[i].terminated_at]_vars

\* C2: whenever no creation call is running, which is every state between two
\* operations of the strategy, both creation latches are released: also after
\* a create_individual_order call that ended with an error of the gateway.
C2_LatchReleasedOnEveryExit ==
    /\ is_a_sell_order_being_created = FALSE
    /\ is_a_buy_order_being_created = FALSE

\* The filled and terminated orders of a side and ref, and the latest of
\* their termination times.
TerminatedFilled(side, ref) ==
    {i \in DOMAIN tracked_orders :
        /\ tracked_orders[i].side = side /\ tracked_orders[i].ref = ref
        /\ tracked_orders[i].last_filled_at # None
        /\ tracked_orders[i].terminated_at # None}

LastTermination(side, ref) ==
    Max({tracked_orders[i].terminated_at : i \in TerminatedFilled(side, ref)})

Latch(side) ==
    IF side = SELL THEN is_a_sell_order_being_created ELSE is_a_buy_order_being_created

\* C3: with a filled order of (side, ref) terminated at T and the latch of the
\* side released, can_create_order for a nonzero amount and a cooldown of five
\* minutes is false while now < T + 300 and true from now = T + 300 on.
C3_CooldownWindow ==
    \A side \in Sides, ref \in Refs, amount_quote \in {100, 200} :
        (TerminatedFilled(side, ref) # {} /\ ~Latch(side)) =>
            (can_create_order(side, amount_quote, ref, 5)
                <=> now >= LastTermination(side, ref) + 300)

\* A filled order was terminated exactly 300 seconds ago.
C3_Witness ==
    \E side \in Sides, ref \in Refs :
        /\ TerminatedFilled(side, ref) # {} /\ ~Latch(side)
        /\ now = LastTermination(side, ref) + 300

\* C4: can_create_order is false for the amount 0, whatever the side, the
\* ref, the cooldown, the latches and the registry.
C4_ZeroAmountRefused ==
    \A side \in Sides, ref \in Refs, cooldown_time_min \in Cooldowns :
        can_create_order(side, 0, ref, cooldown_time_min) = FALSE

\* Nothing but the amount stands in the way of a creation, with an order in
\* the registry.
C4_Witness ==
    /\ tracked_orders # <<>>
    /\ \E side \in Sides, ref \in Refs :
          /\ can_create_order(side, 200, ref, 5)
          /\ ~can_create_order(side, 0, ref, 5)

\* The cooldown test alone, written from the registry.
CooldownOver(side, ref, cooldown_time_min) ==
    \/ TerminatedFilled(side, ref) = {}
    \/ now >= LastTermination(side, ref) + cooldown_time_min * 60

\* C10: while the latch of a side is set can_create_order of that side is
\* false, and the latch of the other side alone refuses nothing: with only
\* the other latch set the answer is the one of the cooldown test.
C10_LatchPerSide ==
    \A side \in Sides, ref \in Refs, cooldown_time_min \in Cooldowns :
        /\ Latch(side) => ~can_create_order(side, 200, ref, cooldown_time_min)
        /\ ~Latch(side) =>
               (can_create_order(side, 200, ref, cooldown_time_min)
                    <=> CooldownOver(side, ref, cooldown_time_min))

\* The sell latch is set, the buy latch is not, and a buy order may be created.
C10_Witness ==
    /\ is_a_sell_order_being_created /\ ~is_a_buy_order_being_created
    /\ tracked_orders # <<>>
    /\ can_create_order(BUY, 200, "R", 0)
    /\ ~can_create_order(SELL, 200, "R", 0)

\* C5: a create_order call to which the gateway returns an order id issues
\* one command, a buy or a sell of the requested side for the amount
\* quote / entry price, and appends one tracked order with the returned id,
\* the requested side, ref and barrier, filled_amount 0 and terminated_at
\* unset; the tracked orders there were and the take-profit orders stay as
\* they are.
C5_CreateOrderFrame ==
    [][\A side \in Sides, entry_price \in EntryPrices, triple_barrier \in Barriers,
         amount_quote \in {100, 200}, ref \in OrderRefs, cooldown_time_min \in Cooldowns :
          CreateOrder(side, entry_price, triple_barrier, amount_quote, ref,
                      cooldown_time_min) =>
              /\ Len(cmds') = 1
              /\ cmds'[1].cmd = (IF side = SELL THEN "sell" ELSE "buy")
              /\ cmds'[1].position = "OPEN"
              /\ cmds'[1].amount * entry_price = amount_quote
              /\ cmds'[1].order_id = NextOrderId
              /\ Len(tracked_orders') = Len(tracked_orders) + 1
              /\ SubSeq(tracked_orders', 1, Len(tracked_orders)) = tracked_orders
              /\ LET appended == tracked_orders'[Len(tracked_orders')]
                 IN  /\ appended.order_id = NextOrderId
                     /\ appended.side = side
                     /\ appended.ref = ref
                     /\ appended.triple_barrier = triple_barrier
                     /\ appended.amount = cmds'[1].amount
                     /\ appended.filled_amount = 0
                     /\ appended.terminated_at = None
              /\ take_profit_limit_orders' = take_profit_limit_orders]_vars

\* A second order has just been created while the first one, filled, has a
\* take-profit order in the registry.
C5_Witness ==
    /\ Len(tracked_orders) = 2
    /\ Len(cmds) = 1 /\ cmds[1].position = "OPEN"
    /\ cmds[1].order_id = tracked_orders[2].order_id
    /\ tracked_orders[2].filled_amount = 0
    /\ tracked_orders[2].terminated_at = None
    /\ tracked_orders[1].filled_amount # 0
    /\ take_profit_limit_orders # <<>>

\* The close commands among cs that are for the tracked order with the id.
CloseCommandsFor(cs, order_id) ==
    {n \in DOMAIN cs : cs[n].position = "CLOSE" /\ cs[n].closes = order_id}

IsActiveFilled(order) == order.terminated_at = None /\ order.last_filled_at # None

\* C6: when a tick finds an active filled order with both its stop loss and
\* its time limit reached, the tick terminates it with close_type STOP_LOSS
\* and issues one close command for it, a market order.
C6_StopLossBeforeTimeLimit ==
    [][\A current_price \in MidPrices :
          CheckOrders(current_price) =>
              \A i \in DOMAIN tracked_orders :
                  (/\ IsActiveFilled(tracked_orders[i])
                   /\ has_current_price_reached_stop_loss(tracked_orders[i], current_price)
                   /\ has_filled_order_reached_time_limit(tracked_orders[i], now))
                  => /\ tracked_orders'[i].close_type = "STOP_LOSS"
                     /\ tracked_orders'[i].terminated_at = now
                     /\ Cardinality(CloseCommandsFor(cmds', tracked_orders[i].order_id)) = 1
                     /\ \A n \in CloseCommandsFor(cmds', tracked_orders[i].order_id) :
                            cmds'[n].order_type = "MARKET"]_vars

\* A tick has just closed by stop loss an order whose time limit had passed.
C6_Witness ==
    \E i \in DOMAIN tracked_orders :
        /\ tracked_orders[i].close_type = "STOP_LOSS"
        /\ tracked_orders[i].terminated_at = now
        /\ has_filled_order_reached_time_limit(tracked_orders[i], now)
        /\ CloseCommandsFor(cmds, tracked_orders[i].order_id) # {}

\* The barrier a tick closes an order by: the first reached of stop loss,
\* take profit (with no unfilled take-profit order resting) and time limit.
FirstBarrier(order, current_price) ==
    IF has_current_price_reached_stop_loss(order, current_price) THEN "STOP_LOSS"
    ELSE IF /\ \A k \in DOMAIN take_profit_limit_orders :
                   take_profit_limit_orders[k].tracked_order = order.order_id
                       => take_profit_limit_orders[k].last_filled_at # None
            /\ has_current_price_reached_take_profit(order, current_price) THEN "TAKE_PROFIT"
    ELSE IF has_filled_order_reached_time_limit(order, now) THEN "TIME_LIMIT"
    ELSE "NONE"

\* C7: a tick issues at most one close command for an active filled order,
\* the one of the first barrier reached in the order stop loss, take profit,
\* time limit, and none when no barrier is reached.
C7_OneCloseInOrder ==
    [][\A current_price \in MidPrices :
          CheckOrders(current_price) =>
              \A i \in DOMAIN tracked_orders :
                  IsActiveFilled(tracked_orders[i]) =>
                      /\ tracked_orders'[i].close_type =
                             FirstBarrier(tracked_orders[i], current_price)
                      /\ Cardinality(CloseCommandsFor(cmds', tracked_orders[i].order_id)) =
                             IF FirstBarrier(tracked_orders[i], current_price) = "NONE"
                             THEN 0 ELSE 1]_vars

\* A tick has just closed by take profit, with a limit order, an order whose
\* time limit had passed as well.
C7_Witness ==
    \E i \in DOMAIN tracked_orders :
        /\ tracked_orders[i].close_type = "TAKE_PROFIT"
        /\ tracked_orders[i].terminated_at = now
        /\ has_filled_order_reached_time_limit(tracked_orders[i], now)
        /\ \E n \in CloseCommandsFor(cmds, tracked_orders[i].order_id) :
               cmds[n].order_type = "LIMIT"

\* The take-profit orders resting for a tracked order, by index.
TakeProfitsOf(order) ==
    {k \in DOMAIN take_profit_limit_orders :
        take_profit_limit_orders[k].tracked_order = order.order_id}

\* The state a round trip ends in: a confirmed tracked order whose one entry
\* fill took the whole amount, and the take-profit order of that fill filled
\* in full.
RoundTripDone(i, k) ==
    /\ tracked_orders[i].exchange_order_id # None
    /\ k \in TakeProfitsOf(tracked_orders[i])
    /\ take_profit_limit_orders[k].amount = tracked_orders[i].amount
    /\ take_profit_limit_orders[k].filled_amount = take_profit_limit_orders[k].amount

\* C8: after create_order, the creation event, a full entry fill and a full
\* fill of the take-profit order made by that fill, the registry holds one
\* tracked order, terminated with close_type TAKE_PROFIT, one take-profit
\* order, filled in full, and no active order.
C8_RoundTrip ==
    \A i \in DOMAIN tracked_orders, k \in DOMAIN take_profit_limit_orders :
        RoundTripDone(i, k) =>
            /\ Len(tracked_orders) = 1
            /\ Len(take_profit_limit_orders) = 1
            /\ tracked_orders[i].terminated_at # None
            /\ tracked_orders[i].close_type = "TAKE_PROFIT"
            /\ \A ref \in Refs \cup {""} : get_active_tracked_orders(ref) = <<>>

\* The round trip has ended, with a barrier whose take-profit order is a
\* limit order.
C8_Witness ==
    \E i \in DOMAIN tracked_orders, k \in DOMAIN take_profit_limit_orders :
        /\ RoundTripDone(i, k)
        /\ tracked_orders[i].triple_barrier.take_profit_delta # None
        /\ tracked_orders[i].triple_barrier.take_profit_order_type = "LIMIT"
        /\ tracked_orders[i].close_type = "TAKE_PROFIT"

\* C9: a fill of a take-profit order that brings the filled_amount of the
\* parent order to 0 sets the parent's close_type to TAKE_PROFIT and its
\* terminated_at to the timestamp of the fill event, and the take-profit
\* order stays in its registry; a fill that leaves the parent's filled_amount
\* other than 0 changes neither the parent's terminated_at nor its close_type.
C9_TakeProfitFillTerminates ==
    [][\A order_id \in DOMAIN ex_rest, amount \in 1..2, price \in {95, 105},
         timestamp \in EventTimestamps :
          (EvFilled(order_id, amount, price, timestamp) /\ ~IsEntryId(order_id)) =>
              LET k == FirstWithId(take_profit_limit_orders, order_id)
                  j == FirstWithId(tracked_orders, take_profit_limit_orders[k].tracked_order)
              IN  /\ k # 0 /\ j # 0
                  /\ IF tracked_orders[j].filled_amount - amount = 0
                     THEN /\ tracked_orders'[j].close_type = "TAKE_PROFIT"
                          /\ tracked_orders'[j].terminated_at = timestamp
                          /\ tracked_orders'[j].filled_amount = 0
                          /\ Len(take_profit_limit_orders') = Len(take_profit_limit_orders)
                          /\ take_profit_limit_orders'[k].order_id = order_id
                          /\ take_profit_limit_orders'[k].filled_amount =
                                 take_profit_limit_orders[k].filled_amount + amount
                     ELSE /\ tracked_orders'[j].terminated_at = tracked_orders[j].terminated_at
                          /\ tracked_orders'[j].close_type = tracked_orders[j].close_type
                          /\ tracked_orders'[j].filled_amount # 0]_vars

\* A take-profit fill stamped before the clock's time has terminated its
\* parent order, and the filled take-profit order is in the registry.
C9_Witness ==
    \E i \in DOMAIN tracked_orders, k \in DOMAIN take_profit_limit_orders :
        /\ k \in TakeProfitsOf(tracked_orders[i])
        /\ tracked_orders[i].close_type = "TAKE_PROFIT"
        /\ tracked_orders[i].filled_amount = 0
        /\ tracked_orders[i].terminated_at = take_profit_limit_orders[k].last_filled_at
        /\ tracked_orders[i].terminated_at = now - 1
        /\ cmds = <<>>

\* The order ids of the orders of a view.
IdsOf(view) == {view[n].order_id : n \in DOMAIN view}

\* The ids of the active, the unfilled and the filled views, for every ref
\* argument.
ViewedIds ==
    UNION {IdsOf(get_active_tracked_orders(ref))
           \cup IdsOf(get_active_tracked_orders_by_side(ref)[1])
           \cup IdsOf(get_active_tracked_orders_by_side(ref)[2])
           \cup IdsOf(get_unfilled_tracked_orders_by_side(ref)[1])
           \cup IdsOf(get_unfilled_tracked_orders_by_side(ref)[2])
           \cup IdsOf(get_filled_tracked_orders_by_side(ref)[1])
           \cup IdsOf(get_filled_tracked_orders_by_side(ref)[2]) : ref \in Refs \cup {""}}

\* C11: a tracked order whose terminated_at is set is in none of the active,
\* unfilled and filled views, it stays terminated, and a tick issues neither a
\* close command nor a cancel command for it.
C11_TerminatedLeavesViews ==
    [][\A i \in DOMAIN tracked_orders :
          tracked_orders[i].terminated_at # None =>
              /\ tracked_orders[i].order_id \notin ViewedIds
              /\ tracked_orders'[i].terminated_at # None
              /\ \A current_price \in MidPrices :
                     CheckOrders(current_price) =>
                         /\ CloseCommandsFor(cmds', tracked_orders[i].order_id) = {}
                         /\ tracked_orders[i].order_id \notin CancelsOf(cmds')]_vars

\* A tick has just closed the second order by stop loss and issued nothing
\* for the first, of the same side and barrier, closed by stop loss before.
C11_Witness ==
    /\ Len(tracked_orders) = 2
    /\ tracked_orders[1].close_type = "STOP_LOSS"
    /\ tracked_orders[1].terminated_at < now
    /\ tracked_orders[1].filled_amount # 0
    /\ tracked_orders[2].close_type = "STOP_LOSS"
    /\ tracked_orders[2].terminated_at = now
    /\ tracked_orders[2].side = tracked_orders[1].side
    /\ tracked_orders[2].triple_barrier = tracked_orders[1].triple_barrier
    /\ CloseCommandsFor(cmds, tracked_orders[2].order_id) # {}
    /\ CloseCommandsFor(cmds, tracked_orders[1].order_id) = {}

\* C12: a creation, fill or cancellation event with an order id that neither
\* registry holds changes no tracked order, no take-profit order and no
\* latch, and issues no command.
C12_UnmatchedEventIgnored ==
    [][(\/ \E kind \in {"created", "filled", "cancelled"}, order_id \in ExternalIds,
             side \in Sides, position \in {"OPEN", "CLOSE", ""} :
             EvExternal(kind, order_id, side, position)
        \/ \E amount \in 1..2 : EvCloseFilled(amount))
       => /\ tracked_orders' = tracked_orders
          /\ take_profit_limit_orders' = take_profit_limit_orders
          /\ is_a_sell_order_being_created' = is_a_sell_order_being_created
          /\ is_a_buy_order_being_created' = is_a_buy_order_being_created
          /\ cmds' = <<>>]_vars

\* The fill event of the close order of a stop-loss close has been handled,
\* with a tracked order and a take-profit order in the registries.
C12_Witness ==
    /\ ex_closing = 0
    /\ cmds = <<>>
    /\ take_profit_limit_orders # <<>>
    /\ \E i \in DOMAIN tracked_orders :
           /\ tracked_orders[i].close_type = "STOP_LOSS"
           /\ tracked_orders[i].filled_amount # 0

\* C13: the filled_amount of every tracked order is at least 0 in every
\* reachable state, also after a take-profit fill event of more than the
\* parent's remaining filled_amount.
C13_FilledAmountNonNegative ==
    \A i \in DOMAIN tracked_orders : tracked_orders[i].filled_amount >= 0

\* C14: with the latch of the side released and a nonzero amount,
\* can_create_order is false only if a filled and terminated order of the same
\* side and ref is within its cooldown, and among those orders the greatest
\* terminated_at decides; orders terminated unfilled, of the other side or
\* of another ref do not count.
C14_CooldownTrigger ==
    \A side \in Sides, ref \in Refs, cooldown_time_min \in Cooldowns :
        ~Latch(side) =>
            /\ ~can_create_order(side, 100, ref, cooldown_time_min) =>
                   \E i \in DOMAIN tracked_orders :
                       /\ tracked_orders[i].side = side
                       /\ tracked_orders[i].ref = ref
                       /\ tracked_orders[i].last_filled_at # None
                       /\ tracked_orders[i].terminated_at # None
                       /\ tracked_orders[i].terminated_at + cooldown_time_min * 60 > now
            /\ TerminatedFilled(side, ref) # {} =>
                   (can_create_order(side, 100, ref, cooldown_time_min)
                        <=> LastTermination(side, ref) + cooldown_time_min * 60 <= now)

\* An order expired unfilled a moment ago and a filled order of the other
\* side or of another ref was closed a moment ago, and an order of the side
\* and ref of the expired one may be created with a cooldown of five minutes.
C14_Witness ==
    \E i, j \in DOMAIN tracked_orders :
        /\ tracked_orders[i].close_type = "EXPIRED"
        /\ tracked_orders[i].last_filled_at = None
        /\ tracked_orders[i].terminated_at + 300 > now
        /\ tracked_orders[j].last_filled_at # None
        /\ tracked_orders[j].terminated_at # None
        /\ tracked_orders[j].terminated_at + 300 > now
        /\ \/ tracked_orders[j].side # tracked_orders[i].side
           \/ tracked_orders[j].ref # tracked_orders[i].ref
        /\ can_create_order(tracked_orders[i].side, 100, tracked_orders[i].ref, 5)
        /\ ~can_create_order(tracked_orders[j].side, 100, tracked_orders[j].ref, 5)

\* C15: the events the exchange has delivered for an entry order are applied
\* to its tracked order, also when they were delivered before create_order
\* returned: once the creation event is delivered the exchange_order_id is
\* set, and once a fill is delivered (less rests of the order than its
\* amount, and not because it was cancelled) last_filled_at is set.
C15_RacingEventMatched ==
    \A i \in DOMAIN tracked_orders :
        /\ tracked_orders[i].order_id \notin ex_unconfirmed
               => tracked_orders[i].exchange_order_id # None
        /\ (/\ ex_rest[tracked_orders[i].order_id] < tracked_orders[i].amount
            /\ tracked_orders[i].close_type # "EXPIRED")
               => tracked_orders[i].last_filled_at # None

\* The tracked orders a step closes by a close command: their indices.
ClosedByStep(cs) ==
    {i \in DOMAIN tracked_orders : CloseCommandsFor(cs, tracked_orders[i].order_id) # {}}

\* After the close command for the order, cs holds a cancel command for every
\* take-profit order of the order that rests on the exchange.
CancelsRestingTakeProfits(cs, i) ==
    \A k \in TakeProfitsOf(tracked_orders[i]) :
        ex_rest[take_profit_limit_orders[k].order_id] > 0 =>
            \E n \in DOMAIN cs :
                /\ cs[n].cmd = "cancel"
                /\ cs[n].order_id = take_profit_limit_orders[k].order_id
                /\ \A m \in CloseCommandsFor(cs, tracked_orders[i].order_id) : m < n

\* C16: when close_filled_orders closes a tracked order, or a tick closes it
\* by stop loss or time limit, the same operation issues, after the close
\* command, a cancel command for every take-profit order of that parent that
\* still rests on the exchange, the partially filled ones included.
C16_CloseCancelsTakeProfits ==
    [][/\ \A side \in Sides, ref \in OrderRefs :
              CloseFilledOrders(side, ref) =>
                  \A i \in ClosedByStep(cmds') : CancelsRestingTakeProfits(cmds', i)
       /\ \A current_price \in MidPrices :
              CheckOrders(current_price) =>
                  \A i \in ClosedByStep(cmds') :
                      tracked_orders'[i].close_type \in {"STOP_LOSS", "TIME_LIMIT"}
                          => CancelsRestingTakeProfits(cmds', i)]_vars

\* What an entry fill does to the tracked order at index j.
AppliedAsEntryFill(j, amount, price, timestamp) ==
    /\ tracked_orders'[j].filled_amount = tracked_orders[j].filled_amount + amount
    /\ tracked_orders'[j].last_filled_at = timestamp
    /\ tracked_orders'[j].last_filled_price = price

\* C17 as claimed: a fill event whose position is not "CLOSE", that is "OPEN"
\* or absent, adds the event's amount to the filled_amount of the tracked
\* order with the event's id and sets its last_filled_at and
\* last_filled_price from the event.
C17_NotCloseIsEntryFill ==
    [][\A order_id \in DOMAIN ex_rest, amount \in 1..2, price \in FillPrices,
         timestamp \in EventTimestamps, position \in {"OPEN", ""} :
          (EvFilledAs(order_id, amount, price, timestamp, position)
               /\ IsEntryId(order_id))
          => AppliedAsEntryFill(FirstWithId(tracked_orders, order_id),
                                amount, price, timestamp)]_vars

\* C17 amended: a fill event with the position "OPEN" is an entry fill of the
\* tracked order with the event's id; a fill event without a position is
\* handled as a take-profit fill, so with the id of a tracked order it
\* changes no tracked order and no take-profit order.
C17_OpenIsEntryFill ==
    [][\A order_id \in DOMAIN ex_rest, amount \in 1..2, price \in FillPrices,
         timestamp \in EventTimestamps :
          /\ (EvFilledAs(order_id, amount, price, timestamp, "OPEN")
                  /\ IsEntryId(order_id))
             => AppliedAsEntryFill(FirstWithId(tracked_orders, order_id),
                                   amount, price, timestamp)
          /\ (EvFilledAs(order_id, amount, price, timestamp, "")
                  /\ IsEntryId(order_id))
             => /\ tracked_orders' = tracked_orders
                /\ take_profit_limit_orders' = take_profit_limit_orders
                /\ cmds' = <<>>]_vars

\* Of an order of two units without take-profit orders nothing rests: one
\* unit was filled by an event with position "OPEN" and is counted, the
\* other by an event without a position and is not.
C17_Witness ==
    \E i \in DOMAIN tracked_orders :
        /\ tracked_orders[i].amount = 2
        /\ ex_rest[tracked_orders[i].order_id] = 0
        /\ ex_cancel = {}
        /\ tracked_orders[i].close_type = "NONE"
        /\ tracked_orders[i].filled_amount = 1
        /\ tracked_orders[i].last_filled_at # None
        /\ TakeProfitsOf(tracked_orders[i]) = {}

\* The step appends to the take-profit registry one order for the parent at
\* index j, of the amount of the fill, at the fill price moved by the
\* parent's take-profit delta, and submits it as a limit close order of the
\* opposite side.
SpawnsTakeProfit(j, amount, price) ==
    LET parent == tracked_orders[j]
        spawned == take_profit_limit_orders'[Len(take_profit_limit_orders')]
    IN  /\ Len(take_profit_limit_orders') = Len(take_profit_limit_orders) + 1
        /\ SubSeq(take_profit_limit_orders', 1, Len(take_profit_limit_orders))
               = take_profit_limit_orders
        /\ spawned.tracked_order = parent.order_id
        /\ spawned.amount = amount
        /\ spawned.filled_amount = 0
        /\ spawned.entry_price * 100 =
               IF parent.side = SELL
               THEN price * (100 - parent.triple_barrier.take_profit_delta)
               ELSE price * (100 + parent.triple_barrier.take_profit_delta)
        /\ Len(cmds') = 1
        /\ cmds'[1].cmd = (IF parent.side = SELL THEN "buy" ELSE "sell")
        /\ cmds'[1].order_type = "LIMIT"
        /\ cmds'[1].position = "CLOSE"
        /\ cmds'[1].amount = amount
        /\ cmds'[1].price = spawned.entry_price
        /\ cmds'[1].order_id = spawned.order_id

\* C18: an entry fill of a tracked order whose barrier has a take-profit
\* delta and the LIMIT take-profit type appends exactly one take-profit order,
\* for that parent, of the fill's amount, priced from the fill's price; an
\* entry fill with another barrier appends none; and no step that is not an
\* entry fill makes the take-profit registry longer.
C18_TakeProfitSpawnedByEntryFill ==
    [][/\ \A order_id \in DOMAIN ex_rest, amount \in 1..2, price \in FillPrices,
            timestamp \in EventTimestamps :
             (EvFilled(order_id, amount, price, timestamp) /\ IsEntryId(order_id)) =>
                 LET j == FirstWithId(tracked_orders, order_id)
                 IN  IF /\ tracked_orders[j].triple_barrier.take_profit_delta # None
                        /\ tracked_orders[j].triple_barrier.take_profit_order_type = "LIMIT"
                     THEN SpawnsTakeProfit(j, amount, price)
                     ELSE take_profit_limit_orders' = take_profit_limit_orders
       /\ Len(take_profit_limit_orders') > Len(take_profit_limit_orders) =>
              \E order_id \in DOMAIN ex_rest, amount \in 1..2, price \in FillPrices,
                 timestamp \in EventTimestamps :
                  EvFilled(order_id, amount, price, timestamp) /\ IsEntryId(order_id)]_vars

\* An entry fill of one unit of an order of two has just made a take-profit
\* order of one unit.
C18_Witness ==
    /\ Len(cmds) = 1 /\ cmds[1].position = "CLOSE" /\ cmds[1].order_type = "LIMIT"
    /\ \E i \in DOMAIN tracked_orders, k \in DOMAIN take_profit_limit_orders :
           /\ k = Len(take_profit_limit_orders)
           /\ take_profit_limit_orders[k].order_id = cmds[1].order_id
           /\ take_profit_limit_orders[k].tracked_order = tracked_orders[i].order_id
           /\ tracked_orders[i].amount = 2
           /\ take_profit_limit_orders[k].amount = 1
           /\ take_profit_limit_orders[k].filled_amount = 0

\* The take-profit orders of the order without any fill, by index.
UnfilledTakeProfitsOf(order) ==
    {k \in TakeProfitsOf(order) : take_profit_limit_orders[k].last_filled_at = None}

\* C19: in a tick, an active filled order whose take-profit price is reached
\* and whose stop loss is not is closed by take profit, with one close command
\* of the barrier's take-profit order type, exactly when no unfilled
\* take-profit order of it is in the registry; while there is one, the tick
\* issues no take-profit close for it.
C19_TakeProfitCloseOnlyWithoutRestingOrder ==
    [][\A current_price \in MidPrices :
          CheckOrders(current_price) =>
              \A i \in DOMAIN tracked_orders :
                  (/\ IsActiveFilled(tracked_orders[i])
                   /\ has_current_price_reached_take_profit(tracked_orders[i], current_price)
                   /\ ~has_current_price_reached_stop_loss(tracked_orders[i], current_price))
                  => IF UnfilledTakeProfitsOf(tracked_orders[i]) = {}
                     THEN /\ tracked_orders'[i].close_type = "TAKE_PROFIT"
                          /\ Cardinality(CloseCommandsFor(cmds', tracked_orders[i].order_id)) = 1
                          /\ \A n \in CloseCommandsFor(cmds', tracked_orders[i].order_id) :
                                 cmds'[n].order_type =
                                     tracked_orders[i].triple_barrier.take_profit_order_type
                     ELSE /\ tracked_orders'[i].close_type # "TAKE_PROFIT"
                          /\ \A n \in CloseCommandsFor(cmds', tracked_orders[i].order_id) :
                                 tracked_orders'[i].close_type = "TIME_LIMIT"]_vars

\* A tick has just closed by take profit, with a limit order, a parent whose
\* take-profit order is in the registry partially filled, so not unfilled.
C19_Witness ==
    \E i \in DOMAIN tracked_orders :
        /\ tracked_orders[i].close_type = "TAKE_PROFIT"
        /\ tracked_orders[i].terminated_at = now
        /\ tracked_orders[i].filled_amount # 0
        /\ TakeProfitsOf(tracked_orders[i]) # {}
        /\ UnfilledTakeProfitsOf(tracked_orders[i]) = {}
        /\ Len(cmds) = 1
        /\ cmds[1].closes = tracked_orders[i].order_id
        /\ cmds[1].order_type = "LIMIT"

RECURSIVE SumFilled(_)
SumFilled(S) ==
    IF S = {} THEN 0
    ELSE LET k == CHOOSE x \in S : TRUE
         IN  take_profit_limit_orders[k].filled_amount + SumFilled(S \ {k})

\* What the exchange has filled of the entry order minus what it has filled
\* of the order's take-profit orders.
NetFilled(order) ==
    (order.amount - ex_rest[order.order_id]) - SumFilled(TakeProfitsOf(order))

RemovedTakeProfitIds ==
    {id \in DOMAIN ex_rest :
        id \notin IdsOf(tracked_orders) \cup IdsOf(take_profit_limit_orders)}

\* C21: in every state no order id is both the id of a tracked order and the
\* id of a take-profit order; a cancellation-confirmed event for the id of a
\* tracked order sets terminated_at = now and close_type = EXPIRED on that
\* order and leaves the take-profit registry as it is; for the id of a
\* take-profit order it removes that order from the registry and leaves the
\* tracked orders as they are; for any other id it changes neither registry.
C21_CancelTerminatesOrRemoves ==
    /\ [](IdsOf(tracked_orders) \cap IdsOf(take_profit_limit_orders) = {})
    /\ [][\A order_id \in ex_cancel \cup ExternalIds :
             (\/ EvCancelled(order_id)
              \/ \E side \in Sides, position \in {"OPEN", "CLOSE", ""} :
                    EvExternal("cancelled", order_id, side, position))
             => LET j == FirstWithId(tracked_orders, order_id)
                    k == FirstWithId(take_profit_limit_orders, order_id)
                IN  /\ ~(j # 0 /\ k # 0)
                    /\ j # 0 =>
                          /\ tracked_orders' =
                                 [tracked_orders EXCEPT ![j].terminated_at = now,
                                                        ![j].close_type = "EXPIRED"]
                          /\ take_profit_limit_orders' = take_profit_limit_orders
                    /\ k # 0 =>
                          /\ take_profit_limit_orders' =
                                 SelectSeq(take_profit_limit_orders,
                                           LAMBDA order : order.order_id # order_id)
                          /\ Len(take_profit_limit_orders') =
                                 Len(take_profit_limit_orders) - 1
                          /\ tracked_orders' = tracked_orders
                    /\ (j = 0 /\ k = 0) =>
                          /\ tracked_orders' = tracked_orders
                          /\ take_profit_limit_orders' = take_profit_limit_orders]_vars

\* A cancellation has terminated a tracked order and another one has removed
\* a take-profit order from the registry.
C21_Witness ==
    /\ \E i \in DOMAIN tracked_orders : tracked_orders[i].close_type = "EXPIRED"
    /\ RemovedTakeProfitIds # {}

\* The ids of the sequence of orders, in its order.
IdSeq(orders) == [n \in DOMAIN orders |-> orders[n].order_id]

\* C22: no step removes a tracked order: the tracked orders of before are
\* all there afterwards, at their places; and a step after which a
\* take-profit order of before is missing is the cancellation-confirmed event
\* of that one order, every other take-profit order staying in the registry
\* in the order of before. A fill, the close of the parent and a tick remove
\* nothing.
C22_OnlyCancellationRemoves ==
    [][/\ Len(tracked_orders') >= Len(tracked_orders)
       /\ \A i \in DOMAIN tracked_orders :
              tracked_orders'[i].order_id = tracked_orders[i].order_id
       /\ LET lost == IdsOf(take_profit_limit_orders) \ IdsOf(take_profit_limit_orders')
          IN  IF lost = {}
              THEN /\ Len(take_profit_limit_orders') >= Len(take_profit_limit_orders)
                   /\ \A k \in DOMAIN take_profit_limit_orders :
                          take_profit_limit_orders'[k].order_id =
                              take_profit_limit_orders[k].order_id
              ELSE \E order_id \in ex_cancel :
                      /\ EvCancelled(order_id)
                      /\ lost = {order_id}
                      /\ IdSeq(take_profit_limit_orders') =
                             SelectSeq(IdSeq(take_profit_limit_orders),
                                       LAMBDA id : id # order_id)]_vars

\* A take-profit order filled whole is still in the registry after its parent
\* was closed by the stop loss, while the cancellation of another
\* take-profit order has removed that one.
C22_Witness ==
    /\ RemovedTakeProfitIds # {}
    /\ \E k \in DOMAIN take_profit_limit_orders :
          /\ take_profit_limit_orders[k].filled_amount = take_profit_limit_orders[k].amount
          /\ \E i \in DOMAIN tracked_orders :
                /\ tracked_orders[i].order_id = take_profit_limit_orders[k].tracked_order
                /\ tracked_orders[i].close_type = "STOP_LOSS"

\* The ids of the active tracked orders without a fill that are older than
\* the configured expiration; none when no expiration is configured.
ExpiredUnfilledIds ==
    {tracked_orders[i].order_id : i \in
        {n \in DOMAIN tracked_orders :
            /\ unfilled_order_expiration # None
            /\ tracked_orders[n].terminated_at = None
            /\ tracked_orders[n].last_filled_at = None
            /\ tracked_orders[n].created_at + unfilled_order_expiration < now}}

\* C23: the cancel commands a check_orders tick issues for tracked orders are
\* one for each active tracked order without a fill whose created_at +
\* expiration < now, and none for any other tracked order; without a
\* configured expiration there is none. The tick leaves the records of the
\* orders it cancels as they are: they are not terminated by it.
C23_ExpiredUnfilledCancelled ==
    [][\A current_price \in MidPrices :
          CheckOrders(current_price) =>
              /\ CancelsOf(cmds') \cap IdsOf(tracked_orders) = ExpiredUnfilledIds
              /\ \A id \in ExpiredUnfilledIds :
                     Cardinality({n \in DOMAIN cmds' :
                                     cmds'[n].cmd = "cancel" /\ cmds'[n].order_id = id}) = 1
              /\ \A i \in DOMAIN tracked_orders :
                     tracked_orders[i].order_id \in ExpiredUnfilledIds =>
                         /\ tracked_orders'[i] = tracked_orders[i]
                         /\ tracked_orders'[i].terminated_at = None]_vars

\* A tick has issued the cancel for an expired unfilled order, which is still
\* not terminated, and none for an unfilled order that is not yet expired.
C23_Witness ==
    \E i, j \in DOMAIN tracked_orders :
        /\ tracked_orders[i].order_id \in CancelsOf(cmds)
        /\ tracked_orders[i].terminated_at = None
        /\ tracked_orders[j].order_id \notin CancelsOf(cmds)
        /\ tracked_orders[j].terminated_at = None
        /\ tracked_orders[j].last_filled_at = None

\* C24: the take-profit order get_latest_filled_tp_limit_order returns, the
\* last appended one that has a fill, has the greatest last_filled_at of all
\* the take-profit orders that have a fill.
C24_LatestFilledIsLastAppended ==
    \A k \in DOMAIN take_profit_limit_orders :
        take_profit_limit_orders[k].last_filled_at # None =>
            take_profit_limit_orders[get_latest_filled_tp_limit_order].last_filled_at
                >= take_profit_limit_orders[k].last_filled_at

\* The commands of cs that submit the order with the id.
SubmissionsOf(cs, order_id) ==
    {n \in DOMAIN cs : cs[n].cmd \in {"buy", "sell"} /\ cs[n].order_id = order_id}

\* C25: a step that appends a take-profit order has issued for it exactly one
\* command, a buy for a SELL parent and a sell for a BUY parent, of order
\* type LIMIT and with position CLOSE; and every command of a step that
\* submits an order with position OPEN is the command of a new tracked order,
\* never of a take-profit order.
C25_TakeProfitCommandCloses ==
    [][/\ \A k \in DOMAIN take_profit_limit_orders' :
              take_profit_limit_orders'[k].order_id \notin IdsOf(take_profit_limit_orders) =>
                  LET tp == take_profit_limit_orders'[k]
                      parent == tracked_orders[FirstWithId(tracked_orders, tp.tracked_order)]
                  IN  /\ Cardinality(SubmissionsOf(cmds', tp.order_id)) = 1
                      /\ \A n \in SubmissionsOf(cmds', tp.order_id) :
                             /\ cmds'[n].cmd = (IF parent.side = BUY THEN "sell" ELSE "buy")
                             /\ cmds'[n].order_type = "LIMIT"
                             /\ cmds'[n].position = "CLOSE"
       /\ \A n \in DOMAIN cmds' :
              (cmds' # cmds /\ cmds'[n].position = "OPEN") =>
                  /\ cmds'[n].order_id \in IdsOf(tracked_orders') \cup InFlightIds'
                  /\ cmds'[n].order_id \notin IdsOf(take_profit_limit_orders')]_vars

\* The entry fill of a SELL order has just made a take-profit order, by a
\* LIMIT buy command with position CLOSE.
C25_Witness ==
    \E k \in DOMAIN take_profit_limit_orders :
        /\ tracked_orders[FirstWithId(tracked_orders,
               take_profit_limit_orders[k].tracked_order)].side = SELL
        /\ \E n \in SubmissionsOf(cmds, take_profit_limit_orders[k].order_id) :
               /\ cmds[n].cmd = "buy"
               /\ cmds[n].order_type = "LIMIT"
               /\ cmds[n].position = "CLOSE"

\* C26: in every state a tracked order has a close type exactly when it has
\* terminated_at set.
C26_CloseTypeIffTerminated ==
    \A i \in DOMAIN tracked_orders :
        (tracked_orders[i].close_type # "NONE") <=> (tracked_orders[i].terminated_at # None)

\* One order was terminated by the fill of its take-profit order to zero and
\* another by its cancellation.
C26_Witness ==
    \E i, j \in DOMAIN tracked_orders :
        /\ tracked_orders[i].close_type = "TAKE_PROFIT"
        /\ tracked_orders[i].filled_amount = 0
        /\ tracked_orders[i].terminated_at # None
        /\ tracked_orders[j].close_type = "EXPIRED"
        /\ tracked_orders[j].terminated_at # None

\* C27: in every state a tracked order with close_type EXPIRED has no fill:
\* last_filled_at is unset, filled_amount is 0 and no take-profit order of
\* the registry is linked to it.
C27_ExpiredNeverFilled ==
    \A i \in DOMAIN tracked_orders :
        tracked_orders[i].close_type = "EXPIRED" =>
            /\ tracked_orders[i].last_filled_at = None
            /\ tracked_orders[i].filled_amount = 0
            /\ TakeProfitsOf(tracked_orders[i]) = {}

\* C28: a fill event, of an entry order or of a take-profit order, leaves
\* every tracked order that is terminated as it is in filled_amount,
\* last_filled_at, last_filled_price and close_type, and appends no
\* take-profit order linked to it.
C28_TerminatedOrderFrozen ==
    [][(\E order_id \in DOMAIN ex_rest, amount \in 1..2, price \in FillPrices \cup {95, 105},
           timestamp \in EventTimestamps : EvFilled(order_id, amount, price, timestamp))
       => \A i \in DOMAIN tracked_orders :
              tracked_orders[i].terminated_at # None =>
                  /\ tracked_orders'[i].filled_amount = tracked_orders[i].filled_amount
                  /\ tracked_orders'[i].last_filled_at = tracked_orders[i].last_filled_at
                  /\ tracked_orders'[i].last_filled_price = tracked_orders[i].last_filled_price
                  /\ tracked_orders'[i].close_type = tracked_orders[i].close_type
                  /\ \A k \in DOMAIN take_profit_limit_orders' :
                         take_profit_limit_orders'[k].tracked_order = tracked_orders[i].order_id
                             => take_profit_limit_orders'[k].order_id
                                    \in IdsOf(take_profit_limit_orders)]_vars

\* C29: for every tracked order the amount of the close command issued for
\* it plus the amounts of the fills of its take-profit orders is at most the
\* amount of its entry fills: what is open of its position is never negative.
C29_NeverClosedBeyondOpened ==
    \A i \in DOMAIN tracked_orders :
        PositionOf(ex_position, tracked_orders[i].order_id) >= 0

\* The tracked order at index i is active, has no fill and is older than the
\* configured expiration.
ExpiredUnfilled(i) ==
    /\ i \in DOMAIN tracked_orders
    /\ tracked_orders[i].order_id \in ExpiredUnfilledIds

\* C30: under the fair schedule, an active tracked order without a fill that
\* is older than the configured expiration is eventually filled or
\* terminated with close_type EXPIRED; and every tick that finds it so
\* issues a cancel command for it.
C30_ExpiredEventuallySettled ==
    /\ \A i \in 1..MaxExposure :
           ExpiredUnfilled(i) ~>
               (/\ i \in DOMAIN tracked_orders
                /\ \/ tracked_orders[i].last_filled_at # None
                   \/ tracked_orders[i].close_type = "EXPIRED")
    /\ [][Tick => \A i \in 1..MaxExposure :
                     ExpiredUnfilled(i) => tracked_orders[i].order_id \in CancelsOf(cmds')]_vars

\* An order that was never filled was terminated as EXPIRED by the
\* cancellation of a cancel command issued after its expiration.
C30_Witness ==
    \E i \in DOMAIN tracked_orders :
        /\ tracked_orders[i].close_type = "EXPIRED"
        /\ tracked_orders[i].last_filled_at = None
        /\ unfilled_order_expiration # None
        /\ tracked_orders[i].created_at + unfilled_order_expiration
               < tracked_orders[i].terminated_at

\* The tracked order at index i is active, has a fill and a barrier with a
\* time limit.
FilledWithTimeLimit(i) ==
    /\ i \in DOMAIN tracked_orders
    /\ IsActiveFilled(tracked_orders[i])
    /\ tracked_orders[i].triple_barrier.time_limit # None

\* C31: under a fair tick and clock and with finitely many fills, an active
\* filled tracked order whose barrier has a time limit is eventually
\* terminated; and the time limit runs from the last fill: a tick closes such
\* an order by TIME_LIMIT only when last_filled_at + time_limit < now, and a
\* tick at which that holds leaves the order terminated.
C31_FilledEventuallyTerminated ==
    /\ \A i \in 1..MaxExposure :
           FilledWithTimeLimit(i) ~>
               (i \in DOMAIN tracked_orders /\ tracked_orders[i].terminated_at # None)
    /\ [][Tick => \A i \in 1..MaxExposure :
                     FilledWithTimeLimit(i) =>
                         LET reached == tracked_orders[i].last_filled_at
                                            + tracked_orders[i].triple_barrier.time_limit < now
                         IN  /\ tracked_orders'[i].close_type = "TIME_LIMIT" => reached
                             /\ reached => tracked_orders'[i].terminated_at = now]_vars

\* An order created at 1 and last filled at 2 was closed by the time limit
\* at 4.
C31_Witness ==
    \E i \in DOMAIN tracked_orders :
        /\ tracked_orders[i].close_type = "TIME_LIMIT"
        /\ tracked_orders[i].created_at = 1
        /\ tracked_orders[i].last_filled_at = 2
        /\ tracked_orders[i].terminated_at = 4

\* The active buy orders of the savings strategy.
ActiveSavingsBuys ==
    {i \in DOMAIN tracked_orders :
        /\ tracked_orders[i].side = BUY
        /\ tracked_orders[i].ref = ORDER_REF
        /\ tracked_orders[i].terminated_at = None}

\* C32: in the savings strategy the active buy orders with ref "Savings" are
\* never more than pyramiding; every step appends one tracked order at most,
\* and a step that appends one starts in a state where can_create_order
\* allows a buy and fewer than pyramiding such orders are active.
C32_PyramidingBound ==
    /\ [](Cardinality(ActiveSavingsBuys) <= pyramiding)
    /\ [][/\ Len(tracked_orders') <= Len(tracked_orders) + 1
          /\ Len(tracked_orders') > Len(tracked_orders) =>
                 /\ can_create_order(BUY, config_amount_quote, ORDER_REF, 0)
                 /\ Cardinality(ActiveSavingsBuys) < pyramiding]_vars

\* pyramiding orders are active, the close is below the threshold and nothing
\* else stands in the way of another buy; an order terminated earlier shows
\* that the count is of the active orders.
C32_Witness ==
    /\ context # <<>>
    /\ Cardinality(ActiveSavingsBuys) = pyramiding
    /\ Len(tracked_orders) > pyramiding
    /\ can_create_order(BUY, config_amount_quote, ORDER_REF, 0)
    /\ is_current_dca_price_below_threshold(context)

====
